---- MODULE Spec2Model ----
(***************************************************************************)
(* A model of phub (trackhub-utils): the guarded-execution primitive       *)
(* utils.call_if_not_exists and the command-line entry points that drive   *)
(* it (get_bed2bigBed, get_bam2bigWig, get_bedGraph2bigWig, get_hub).      *)
(*                                                                         *)
(* A path is a tuple <<directory, stem, extension>>; "{}.invalid" appends  *)
(* a fourth component.  The file system is the set of existing files and   *)
(* the set of existing directories.                                        *)
(***************************************************************************)
EXTENDS Integers, Sequences, FiniteSets, TLC

\* ------------------------------------------------------------------ bounds

\* largest num_attempts a caller passes
MaxAttempts == 2

\* largest number of files an input directory, list or mapping names
NumEntries == 2

\* how many times an entry point is run in a row on the same files
MaxRuns == 2

\* largest number of rows of a table read from a BED file
MaxRows == 2

\* largest number of lines of a --configure-fields file
MaxLines == 3

\* number of tracks a hub configuration declares for each format
NumTracks == 2

\* the highest step number given to check_call_step (the default is -1)
MaxStep == 1

\* the longest list of options given to _get_args
MaxOptions == 3

\* the longest list of programs given to check_programs_exist alone
MaxPrograms == 2

\* the highest exit code of a command run by check_call_step alone
MaxCode == 2

\* exit codes an external command may return (0 = success)
ExitCodes == {0, 1}

\* ------------------------------------------------------------------- state

VARIABLES
    prog,         \* the entry point that is running ("api" = a direct call of the primitive)
    pc,           \* control position
    ret,          \* where call_if_not_exists returns to
    fs,           \* the existing files
    dirs,         \* the existing directories
    p,            \* the arguments of the current call_if_not_exists call
    attempt,      \* call_if_not_exists: local attempt
    ret_code,     \* call_if_not_exists: local ret_code
    all_valid,    \* call_if_not_exists: local all_valid
    exc,          \* the exception that left the program ("none" when none)
    calls,        \* the commands subprocess.call has executed, in order
    made_dirs,    \* directories os.makedirs was asked to create in this call
    renamed,      \* files os.rename has moved to "<file>.invalid" in this call
    removed,      \* files os.remove has removed
    checked,      \* files a checker has been run on in this call
    lastFailed,   \* files whose checker returned False in the latest attempt
    branch,       \* which way call_if_not_exists went: "missing_in", "skip", "loop"
    fs0,          \* the files that existed when call_if_not_exists was entered
    written,      \* files written in this run, by the program or by a command it ran
    args,         \* the parsed command line of the entry point
    which,        \* the programs shutil.which resolves on the search path
    fileMapping,  \* main: fileMapping, in the order its items are visited
    idx,          \* main: the item of fileMapping the per-file loop is at
    reads,        \* files and directories read in this run
    processed,    \* the items of fileMapping whose loop body has completed
    exc_path,     \* the file the exception's message names (<<>> when none)
    run,          \* the number of this run
    prevNormal,   \* whether the run before this one ended without an exception
    rm_failed,    \* files on which os.remove raised OSError in this run
    topts,        \* _get_bed: the options and inputs of the call
    bedFrame,     \* _get_bed: the data frame bed
    bedRead,      \* the data frame as _read_bed returned it
    bedAdd,       \* the data frame after the --add-chr statement
    bedDict,      \* the data frame after the --chr-dict statement
    tmpBefore,    \* the temporary file before the call
    tmpAfter,     \* the temporary file _get_bed returns, handed to _convert
    cfg,          \* schema generation: --configure-fields and the lines of its file
    schema,       \* schema generation: the schema file, the type tag, fields_to_keep
    config,       \* get_hub: the configuration file, as yaml.load returns it
    py,           \* get_hub: the interpreter (whether names bound by exec persist)
    keys_ret,     \* get_hub: what utils.check_keys_exist returned
    hub,          \* get_hub: the trackhub.Hub object
    supers,       \* get_hub: the trackhub.SuperTrack objects, in order of creation
    tracks,       \* get_hub: the trackhub.Track objects, in order of creation
    trackDb,      \* get_hub: what was added to the trackhub.TrackDb, in order
    staged,       \* get_hub: whether stage_hub was called
    callee,       \* the function called on its own ("none" before the call)
    given,        \* the arguments of that call
    result        \* what the call returned or raised

guardVars == <<p, ret, attempt, ret_code, all_valid, made_dirs, renamed,
               checked, lastFailed, branch, fs0>>

mainVars == <<args, which, fileMapping, idx, reads, processed, exc_path, run, prevNormal,
              rm_failed>>

tableVars == <<topts, bedFrame, bedRead, bedAdd, bedDict, tmpBefore, tmpAfter>>

\* what the guard and the entry points' control flow leave alone
schemaVars == <<cfg, schema>>

hubVars == <<config, py, keys_ret, hub, supers, tracks, trackDb, staged>>

fnVars == <<callee, given, result>>

dataVars == <<tableVars, schemaVars, hubVars, fnVars>>

vars == <<prog, pc, fs, dirs, exc, calls, removed, written, guardVars, mainVars, dataVars>>

\* no _get_bed call is under way
TableIdle ==
    /\ topts = <<>>
    /\ bedFrame = <<>>
    /\ bedRead = <<>>
    /\ bedAdd = <<>>
    /\ bedDict = <<>>
    /\ tmpBefore = <<>>
    /\ tmpAfter = <<>>

\* no schema is being generated
SchemaIdle ==
    /\ cfg = <<>>
    /\ schema = <<>>

\* get_hub has built nothing
NothingBuilt ==
    /\ keys_ret = <<>>
    /\ hub = <<>>
    /\ supers = <<>>
    /\ tracks = <<>>
    /\ trackDb = <<>>
    /\ staged = FALSE

\* get_hub is not running
HubIdle ==
    /\ config = <<>>
    /\ py = <<>>
    /\ NothingBuilt

\* no function was called on its own
FnIdle ==
    /\ callee = "none"
    /\ given = <<>>
    /\ result = <<>>

DataIdle == TableIdle /\ SchemaIdle /\ HubIdle /\ FnIdle

\* ------------------------------------------------------------------- paths

Range(s) == {s[k] : k \in 1..Len(s)}

\* os.path.dirname
Dirname(path) == path[1]

\* "{}.invalid".format(filename)
InvalidName(path) == Append(path, "invalid")

\* os.path.exists
Exists(path, files) == path \in files

\* A shell word naming a file: the path, bare or inside quotes.
Bare(path) == [quoted |-> FALSE, path |-> path]
Quoted(path) == [quoted |-> TRUE, path |-> path]

\* shlex.split(in_f)[0]: the word with its quoting removed
ShlexFirst(w) == w.path

\* Python's None, a str and a list of paths, told apart as isinstance does
NoneValue == [kind |-> "None", v |-> <<>>]
StrValue(path) == [kind |-> "str", v |-> <<path>>]
ListValue(s) == [kind |-> "list", v |-> s]

\* -------------------------------------------------- utils.check_call_step

\* check_call_step running the command whatever the steps are
CheckCallStepAnyStep(cmd, current_step, init_step, call, raise_on_error, code) ==
    IF call
    THEN [executed |-> TRUE,
          ret_code |-> code,
          exc      |-> IF raise_on_error /\ code # 0 THEN "CalledProcessError" ELSE "none",
          exc_args |-> IF raise_on_error /\ code # 0 THEN <<code, cmd>> ELSE <<>>]
    ELSE [executed |-> FALSE, ret_code |-> 0, exc |-> "none", exc_args |-> <<>>]

\* What check_call_step does with a command whose process would exit with
\* `code`: whether subprocess.call runs, the value returned, the exception.
\* exc_args are the arguments of the exception: CalledProcessError(ret_code, cmd).
CheckCallStep(cmd, current_step, init_step, call, raise_on_error, code) ==
    IF current_step >= init_step /\ call
    THEN [executed |-> TRUE,
          ret_code |-> code,
          exc      |-> IF raise_on_error /\ code # 0 THEN "CalledProcessError" ELSE "none",
          exc_args |-> IF raise_on_error /\ code # 0 THEN <<code, cmd>> ELSE <<>>]
    ELSE [executed |-> FALSE, ret_code |-> 0, exc |-> "none", exc_args |-> <<>>]

\* check_call: check_call_step with its default steps (-1, -1)
CheckCall(cmd, call, raise_on_error, code) ==
    CheckCallStep(cmd, -1, -1, call, raise_on_error, code)

\* The files an executed command leaves: its outputs when it exits 0; when it
\* fails, its outputs written in part (wrote) or not at all.
CommandWrites(cmd, code, wrote) ==
    IF code = 0 \/ wrote THEN Range(cmd.outs) ELSE {}

\* ----------------------------------------------- utils.call_if_not_exists

\* lines 314-323: the input files that do not exist
MissingInFiles(in_files, files) ==
    SelectSeq(in_files, LAMBDA w : ~Exists(ShlexFirst(w), files))

\* lines 338-339: a str becomes a one-element list
OutFilesList(out_files) ==
    IF out_files.kind = "str" THEN ListValue(out_files.v) ELSE out_files

\* lines 342-344
AllOutExists(out_files, files) ==
    /\ out_files.kind # "None"
    /\ \A k \in 1..Len(out_files.v) : Exists(out_files.v[k], files)

\* lines 365-379: the checkers are visited in the mapping's order; a file whose
\* checker fails is renamed, and os.rename raises when the file does not exist.
RECURSIVE RenameInvalid(_, _, _, _)
RenameInvalid(keys, failing, files, done) ==
    IF keys = <<>> THEN [fs |-> files, renamed |-> done, exc |-> "none"]
    ELSE LET f == Head(keys) IN
         IF f \notin failing THEN RenameInvalid(Tail(keys), failing, files, done)
         ELSE IF ~Exists(f, files)
              THEN [fs |-> files, renamed |-> done, exc |-> "FileNotFoundError"]
              ELSE RenameInvalid(Tail(keys), failing,
                                 (files \ {f}) \cup {InvalidName(f)},
                                 done \cup {f})

\* lines 402-407: the to_delete files that exist
ToRemove(to_delete, files) == {f \in Range(to_delete) : Exists(f, files)}

\* line 347 with the test of the outputs lost
ShouldRunAlways(overwrite, all_out_exists) == TRUE

\* line 347: the command runs when overwrite is set or an output is missing
ShouldRun(overwrite, all_out_exists) == overwrite \/ ~all_out_exists

\* lines 391-400 with the removal no longer under "elif"
DeleteAllowedAlways(valid, keep_delete_files) == ~keep_delete_files

\* lines 391-400: the to_delete files are removed when all_valid and not kept
DeleteAllowed(valid, keep_delete_files) == valid /\ ~keep_delete_files

\* line 349 with "<=" for "<"
MoreAttemptsLoose(n, num_attempts) == n <= num_attempts

\* line 349: while attempt < num_attempts
MoreAttempts(n, num_attempts) == n < num_attempts

\* lines 325-328 as the docstring (lines 241-243) has it: with call=False the
\* function goes on
AbortOnMissingIfCall(missing_in_files, call) == missing_in_files # <<>> /\ call

\* lines 325-328: any missing input file ends the call
AbortOnMissing(missing_in_files, call) == missing_in_files # <<>>

\* lines 312-347: the input check, the output check, and the way taken
CineBegin ==
    /\ pc = "cine_begin"
    /\ LET missing_in_files == MissingInFiles(p.in_files, fs)
           out_files == OutFilesList(p.out_files)
           all_out_exists == AllOutExists(out_files, fs)
           abort == AbortOnMissing(missing_in_files, p.call)
       IN  /\ p' = [p EXCEPT !.out_files = IF abort THEN @ ELSE out_files]
           /\ IF abort
              THEN /\ branch' = "missing_in"
                   /\ pc' = ret
              ELSE IF ShouldRun(p.overwrite, all_out_exists)
                   THEN /\ branch' = "loop"
                        /\ pc' = IF MoreAttempts(0, p.num_attempts)
                                 THEN "cine_attempt" ELSE "cine_finish"
                   ELSE /\ branch' = "skip"
                        /\ pc' = "cine_finish"
    /\ attempt' = 0
    /\ ret_code' = 0
    /\ all_valid' = TRUE
    /\ fs0' = fs
    /\ made_dirs' = {}
    /\ renamed' = {}
    /\ checked' = {}
    /\ lastFailed' = {}
    /\ UNCHANGED <<prog, ret, fs, dirs, exc, calls, removed, written, mainVars>>
    /\ UNCHANGED dataVars

\* lines 349-383: one pass of the attempt loop
CineAttempt ==
    /\ pc = "cine_attempt"
    /\ attempt' = attempt + 1
    /\ \E code \in ExitCodes, wrote \in BOOLEAN, failing \in SUBSET Range(p.file_checkers.v) :
         LET newdirs == IF p.out_files.kind = "None" THEN {}
                        ELSE {Dirname(x) : x \in Range(p.out_files.v)}
             r == CheckCall(p.cmd, p.call, p.raise_on_error, code)
             out == IF r.executed THEN CommandWrites(p.cmd, code, wrote) ELSE {}
             fs1 == fs \cup out
             nocheck == ~p.call \/ p.file_checkers.kind = "None"
             rn == RenameInvalid(p.file_checkers.v, failing, fs1, renamed)
         IN  /\ r.executed \/ (code = 0 /\ wrote)
             /\ (code = 0) => wrote
             /\ (r.exc # "none" \/ nocheck) => failing = {}
             /\ made_dirs' = made_dirs \cup newdirs
             /\ dirs' = dirs \cup newdirs
             /\ calls' = IF r.executed THEN Append(calls, p.cmd) ELSE calls
             /\ written' = written \cup out
             /\ IF r.exc # "none"
                THEN /\ exc' = r.exc
                     /\ pc' = "raised"
                     /\ fs' = fs1
                     /\ UNCHANGED <<ret_code, all_valid, renamed, checked, lastFailed>>
                ELSE /\ ret_code' = r.ret_code
                     /\ IF nocheck
                        THEN /\ pc' = "cine_finish"
                             /\ fs' = fs1
                             /\ UNCHANGED <<exc, all_valid, renamed, checked, lastFailed>>
                        ELSE /\ checked' = checked \cup Range(p.file_checkers.v)
                             /\ lastFailed' = failing
                             /\ fs' = rn.fs
                             /\ renamed' = rn.renamed
                             /\ all_valid' = (failing = {})
                             /\ exc' = rn.exc
                             /\ pc' = IF rn.exc # "none" THEN "raised"
                                      ELSE IF failing = {} THEN "cine_finish"
                                      ELSE IF MoreAttempts(attempt + 1, p.num_attempts)
                                           THEN "cine_attempt"
                                           ELSE "cine_finish"
    /\ UNCHANGED <<prog, ret, p, removed, branch, fs0, mainVars>>
    /\ UNCHANGED dataVars

\* lines 386-409: the verdict, the removal of the to_delete files, the return
CineFinish ==
    /\ pc = "cine_finish"
    /\ IF ~all_valid /\ p.raise_on_error
       THEN /\ exc' = "OSError"
            /\ pc' = "raised"
            /\ UNCHANGED <<fs, removed>>
       ELSE /\ pc' = ret
            /\ exc' = exc
            /\ IF DeleteAllowed(all_valid, p.keep_delete_files)
               THEN /\ fs' = fs \ ToRemove(p.to_delete, fs)
                    /\ removed' = removed \cup ToRemove(p.to_delete, fs)
               ELSE UNCHANGED <<fs, removed>>
    /\ UNCHANGED <<prog, dirs, calls, written, guardVars, mainVars>>
    /\ UNCHANGED dataVars

\* ------------------------------------------ a direct call of the primitive

InA == <<"in", "a", "txt">>
InQ == <<"in", "b c", "txt">>
Out1 == <<"out", "o1", "dat">>
Out2 == <<"sub", "o2", "dat">>
Del1 == <<"tmp", "d", "tmp">>

ApiFiles == {InA, InQ, Out1, Out2, Del1}

ApiInFiles == {<<>>, <<Bare(InA)>>, <<Bare(InA), Quoted(InQ)>>}
ApiOutFiles == {NoneValue, StrValue(Out1), ListValue(<<Out1, Out2>>)}
ApiCheckers == {NoneValue, ListValue(<<Out1>>), ListValue(<<Out1, Out2>>)}
ApiToDelete == {<<>>, <<Del1>>}

\* A caller invokes call_if_not_exists(cmd, out_files, ...).
ApiCall ==
    /\ pc = "idle"
    /\ prog = "api"
    /\ \E in_files \in ApiInFiles, out_files \in ApiOutFiles,
          overwrite \in BOOLEAN, call \in BOOLEAN, raise_on_error \in BOOLEAN,
          file_checkers \in ApiCheckers, num_attempts \in 0..MaxAttempts,
          to_delete \in ApiToDelete, keep_delete_files \in BOOLEAN :
         p' = [cmd |-> [prog |-> "cmd", opts |-> <<>>, ins |-> <<>>, outs |-> out_files.v],
               out_files |-> out_files, in_files |-> in_files,
               overwrite |-> overwrite, call |-> call,
               raise_on_error |-> raise_on_error,
               file_checkers |-> file_checkers, num_attempts |-> num_attempts,
               to_delete |-> to_delete, keep_delete_files |-> keep_delete_files]
    /\ pc' = "cine_begin"
    /\ ret' = "returned"
    /\ UNCHANGED <<prog, fs, dirs, exc, calls, removed, attempt, ret_code, all_valid,
                   made_dirs, renamed, checked, lastFailed, branch, fs0, written,
                   mainVars>>
    /\ UNCHANGED dataVars

NoCall == [cmd |-> [prog |-> "", opts |-> <<>>, ins |-> <<>>, outs |-> <<>>],
           out_files |-> NoneValue, in_files |-> <<>>,
           overwrite |-> FALSE, call |-> TRUE, raise_on_error |-> TRUE,
           file_checkers |-> NoneValue, num_attempts |-> 1,
           to_delete |-> <<>>, keep_delete_files |-> FALSE]

\* the command line before it is parsed
NoArgs == [input_format |-> "glob", key_ok |-> TRUE, overwrite |-> FALSE,
           keep |-> FALSE, skip |-> FALSE, configure_fields |-> FALSE,
           split_strand |-> FALSE]

Init ==
    /\ prog = "api"
    /\ pc = "idle"
    /\ ret = "returned"
    /\ fs \in SUBSET ApiFiles
    /\ dirs = {"in", "tmp"} \cup {Dirname(f) : f \in fs}
    /\ p = NoCall
    /\ attempt = 0
    /\ ret_code = 0
    /\ all_valid = TRUE
    /\ exc = "none"
    /\ calls = <<>>
    /\ made_dirs = {}
    /\ renamed = {}
    /\ removed = {}
    /\ checked = {}
    /\ lastFailed = {}
    /\ branch = "none"
    /\ fs0 = {}
    /\ written = {}
    /\ args = NoArgs
    /\ which = {}
    /\ fileMapping = <<>>
    /\ idx = 0
    /\ reads = {}
    /\ processed = {}
    /\ exc_path = <<>>
    /\ run = 1
    /\ prevNormal = FALSE
    /\ rm_failed = {}
    /\ DataIdle

Next == ApiCall \/ CineBegin \/ CineAttempt \/ CineFinish

Spec == Init /\ [][Next]_vars

\* ------------------------------------------------------- the entry points

\* args.outputDir (args.stagingDir for get_hub)
OutDir == "out"

\* the chrSizes argument
ChrSizes == <<"ref", "chrom", "sizes">>

\* the --configure-fields argument
ConfigureFields == <<"cfg", "fields", "csv">>

\* get_hub's config argument
HubConfig == <<"cfg", "hub", "yaml">>

\* args.inputDir: a directory with 'glob', a file with 'txt' and 'yaml'
InputPath(input_format) ==
    IF input_format = "glob" THEN <<"in", "", "">> ELSE <<"cfg", "input", input_format>>

\* the base names of the files the input names, and the keys a yaml mapping
\* gives them
BaseNames == <<"s1", "s2", "s3", "s4">>
YamlKeys == <<"k1", "k2", "k3", "k4">>

\* the k-th file the input directory, list or mapping names
Source(k, ext) == <<"in", BaseNames[k], ext>>

\* os.path.splitext(os.path.basename(f))[0]
DeriveName(path) == path[2]

\* os.path.join(directory, '{}.<ext>'.format(name))
Join(directory, name, ext) == <<directory, name, ext>>

\* the names bound in each module and in its main(): a name outside them
\* raises NameError when it is evaluated
MainLocals == {"parser", "args", "msg", "programs", "filenames", "match", "config",
               "fileMapping", "f", "outputFile"}
BedNames == {"sys", "os", "argparse", "logging", "yaml", "json", "csv", "gzip", "re",
             "pd", "utils", "logger", "AutoSqlStr", "default_fields", "_glob_re",
             "_read_bed", "_get_bed", "_convert", "main"} \cup MainLocals
BamNames == {"sys", "os", "glob", "argparse", "logging", "pd", "utils", "logger",
             "_get_args", "main"} \cup MainLocals
BedGraphNames == {"sys", "os", "glob", "re", "argparse", "logging", "yaml", "csv",
                  "json", "pd", "utils", "logger", "default_fields", "BEDGRAPH_FIELDS",
                  "_glob_re", "_read_bed", "_get_bed", "_convert", "main"}
                 \cup MainLocals

Resolves(name, names) == name \in names

\* utils.check_programs_exist: the programs shutil.which does not find
MissingPrograms(programs, found) == SelectSeq(programs, LAMBDA x : x \notin found)

\* the output-path check with the test lost
OutputDirUnchecked(directory, ds) == TRUE

\* "check output path": os.path.exists(args.outputDir)
OutputDirExists(directory, ds) == directory \in ds

\* The start of every converter's main: the programs, then the output path.
\* EnvironmentError is OSError.
Startup(programs, found, ds) ==
    IF MissingPrograms(programs, found) # <<>> THEN "OSError"
    ELSE IF ~OutputDirExists(OutDir, ds) THEN "OSError"
    ELSE "none"

\* fileMapping built from file names (glob, txt)
MappingOf(filenames) ==
    [k \in 1..Len(filenames) |-> [name |-> DeriveName(filenames[k]), path |-> filenames[k]]]

\* "input format": the three ways fileMapping is built, in a module whose
\* names are `names`
FetchFiles(a, ext, names, files) ==
    LET listed == [k \in 1..NumEntries |-> Source(k, ext)]
        none == [exc |-> "none", reads |-> {}, mapping |-> <<>>]
    IN  CASE a.input_format = "glob" ->
               IF ~Resolves("_glob_re", names)
               THEN [none EXCEPT !.exc = "NameError"]
               ELSE [none EXCEPT !.reads = {InputPath("glob")},
                                 !.mapping = MappingOf(SelectSeq(listed,
                                                LAMBDA f : Exists(f, files)))]
          [] a.input_format = "txt" ->
               [none EXCEPT !.reads = {InputPath("txt")}, !.mapping = MappingOf(listed)]
          [] a.input_format = "yaml" ->
               IF ~Resolves("yaml", names)
               THEN [none EXCEPT !.exc = "NameError"]
               ELSE IF ~a.key_ok
                    THEN [none EXCEPT !.exc = "KeyError", !.reads = {InputPath("yaml")}]
                    ELSE [none EXCEPT !.reads = {InputPath("yaml")},
                                      !.mapping = [k \in 1..NumEntries |->
                                          [name |-> YamlKeys[k], path |-> listed[k]]]]

\* the per-file test made for every item of the mapping before the loop starts
SourceMissingAhead(mapping, i, files) ==
    \E j \in i..Len(mapping) : ~Exists(mapping[j].path, files)

\* the per-file test: "if not os.path.exists(oldBed)"
SourceMissing(mapping, i, files) == ~Exists(mapping[i].path, files)

\* the command lines a run may be given
ArgSets(skips, keeps, configures, splits) ==
    {a \in [input_format : {"glob", "txt", "yaml"}, key_ok : BOOLEAN,
            overwrite : BOOLEAN, keep : keeps, skip : skips,
            configure_fields : configures, split_strand : splits] :
        a.input_format # "yaml" => a.key_ok}

\* a second run is given the first one's command line, with or without --overwrite
SameInputs(a) == run > 1 => a = [args EXCEPT !.overwrite = a.overwrite]

\* ------------------------------------------------------ get_bed2bigBed.py

\* _get_bed, lines 126-138: the temporary file and whether it is written
GetBed(filename, output_filename, overwrite, files) ==
    LET tmp == Join(OutDir, output_filename, "bed")
    IN  [tmp |-> tmp, write |-> ~(Exists(tmp, files) /\ ~overwrite)]

\* _convert, lines 144-161: the call_if_not_exists call
ConvertCall(bed, bb, use_config_fields, a) ==
    [cmd |-> [prog |-> "bedToBigBed",
              opts |-> <<use_config_fields.bed_type, "name">>,
              ins  |-> <<use_config_fields.as_file, bed, ChrSizes>>,
              outs |-> <<bb>>],
     out_files |-> ListValue(<<bb>>),
     in_files |-> <<Bare(bed), Bare(ChrSizes), Bare(use_config_fields.as_file)>>,
     overwrite |-> a.overwrite, call |-> TRUE, raise_on_error |-> TRUE,
     file_checkers |-> NoneValue, num_attempts |-> 1,
     to_delete |-> <<>>, keep_delete_files |-> FALSE]

\* main, lines 293-336: the schema file and the type tag
UseConfigFields(a) ==
    [as_file |-> Join(OutDir, "SelectedFields", "as"),
     bed_type |-> IF a.configure_fields THEN "bedS+E" ELSE "bed12"]

\* main, lines 251-336: the checks, the file mapping, the schema file
BedMain ==
    /\ pc = "idle"
    /\ prog = "bed2bigBed"
    /\ \E a \in ArgSets(BOOLEAN, BOOLEAN, BOOLEAN, {FALSE}) :
         LET st == Startup(<<"bedToBigBed">>, which, dirs)
             ff == FetchFiles(a, "bed", BedNames, fs)
             ucf == UseConfigFields(a)
         IN  /\ SameInputs(a)
             /\ args' = a
             /\ IF st # "none"
                THEN /\ exc' = st
                     /\ pc' = "raised"
                     /\ UNCHANGED <<fs, written, reads, fileMapping, idx>>
                ELSE IF ff.exc # "none"
                THEN /\ exc' = ff.exc
                     /\ pc' = "raised"
                     /\ reads' = ff.reads
                     /\ UNCHANGED <<fs, written, fileMapping, idx>>
                ELSE /\ exc' = "none"
                     /\ pc' = "bed_loop"
                     /\ fileMapping' = ff.mapping
                     /\ idx' = 1
                     /\ reads' = ff.reads \cup
                                 (IF a.configure_fields THEN {ConfigureFields} ELSE {})
                     /\ fs' = fs \cup {ucf.as_file}
                     /\ written' = {ucf.as_file}
    /\ UNCHANGED <<prog, dirs, calls, removed, guardVars, which, processed, exc_path,
                   run, prevNormal>>
    /\ UNCHANGED dataVars
    /\ UNCHANGED rm_failed

\* main, lines 338-359, up to the call made by _convert: the end of the loop,
\* the missing source, _get_bed (unless --skip) and the arguments of the call
BedLoop ==
    /\ pc = "bed_loop"
    /\ IF idx > Len(fileMapping)
       THEN /\ pc' = "done"
            /\ UNCHANGED <<fs, written, reads, exc, exc_path, p, ret>>
       ELSE LET newBed == fileMapping[idx].name
                oldBed == fileMapping[idx].path
                g == GetBed(oldBed, newBed, args.overwrite, fs)
                bed == IF args.skip THEN oldBed ELSE g.tmp
                bb == Join(OutDir, newBed, "bb")
            IN  IF SourceMissing(fileMapping, idx, fs)
                THEN /\ exc' = "FileNotFoundError"
                     /\ exc_path' = oldBed
                     /\ pc' = "raised"
                     /\ UNCHANGED <<fs, written, reads, p, ret>>
                ELSE /\ pc' = "cine_begin"
                     /\ ret' = "bed_after_call"
                     /\ p' = ConvertCall(bed, bb, UseConfigFields(args), args)
                     /\ reads' = IF args.skip THEN reads ELSE reads \cup {oldBed}
                     /\ fs' = IF ~args.skip /\ g.write THEN fs \cup {g.tmp} ELSE fs
                     /\ written' = IF ~args.skip /\ g.write
                                   THEN written \cup {g.tmp} ELSE written
                     /\ UNCHANGED <<exc, exc_path>>
    /\ UNCHANGED <<prog, dirs, calls, removed, attempt, ret_code, all_valid, made_dirs,
                   renamed, checked, lastFailed, branch, fs0, args, which, fileMapping,
                   idx, processed, run, prevNormal>>
    /\ UNCHANGED dataVars
    /\ UNCHANGED rm_failed

\* _convert removing its input whatever --keep is
RemovesBedAlways(a) == TRUE

\* _convert, line 162: "if not args.keep"
RemovesBed(a) == ~a.keep

\* _convert, lines 162-169, and the step to the next item: os.remove raises
\* OSError when the file does not exist and may raise it when it does; the
\* exception is logged
BedAfterCall ==
    /\ pc = "bed_after_call"
    /\ LET bed == p.in_files[1].path
       IN  IF RemovesBed(args)
           THEN \E ok \in BOOLEAN :
                  /\ ok => Exists(bed, fs)
                  /\ fs' = IF ok THEN fs \ {bed} ELSE fs
                  /\ removed' = IF ok THEN removed \cup {bed} ELSE removed
                  /\ rm_failed' = IF ok THEN rm_failed ELSE rm_failed \cup {bed}
           ELSE UNCHANGED <<fs, removed, rm_failed>>
    /\ processed' = processed \cup {idx}
    /\ idx' = idx + 1
    /\ pc' = "bed_loop"
    /\ UNCHANGED <<prog, dirs, exc, calls, written, guardVars, args, which, fileMapping,
                   reads, exc_path, run, prevNormal>>
    /\ UNCHANGED dataVars

\* ------------------------------------------------------ get_bam2bigWig.py

\* main, lines 122-132: the call_if_not_exists call
BamCall(bam, filename, a) ==
    [cmd |-> [prog |-> "bamCoverage", opts |-> <<"bigwig">>, ins |-> <<bam>>,
              outs |-> <<filename>>],
     out_files |-> ListValue(<<filename>>),
     in_files |-> <<Bare(bam)>>,
     overwrite |-> a.overwrite, call |-> TRUE, raise_on_error |-> TRUE,
     file_checkers |-> NoneValue, num_attempts |-> 1,
     to_delete |-> <<>>, keep_delete_files |-> FALSE]

\* main, lines 76-115: the checks and the file mapping
BamMain ==
    /\ pc = "idle"
    /\ prog = "bam2bigWig"
    /\ \E a \in ArgSets({FALSE}, {FALSE}, {FALSE}, {FALSE}) :
         LET st == Startup(<<"bamCoverage">>, which, dirs)
             ff == FetchFiles(a, "bam", BamNames, fs)
         IN  /\ SameInputs(a)
             /\ args' = a
             /\ IF st # "none"
                THEN /\ exc' = st
                     /\ pc' = "raised"
                     /\ UNCHANGED <<reads, fileMapping, idx>>
                ELSE IF ff.exc # "none"
                THEN /\ exc' = ff.exc
                     /\ pc' = "raised"
                     /\ reads' = ff.reads
                     /\ UNCHANGED <<fileMapping, idx>>
                ELSE /\ exc' = "none"
                     /\ pc' = "bam_loop"
                     /\ fileMapping' = ff.mapping
                     /\ idx' = 1
                     /\ reads' = ff.reads
    /\ UNCHANGED <<prog, fs, dirs, calls, removed, written, guardVars, which, processed,
                   exc_path, run, prevNormal>>
    /\ UNCHANGED dataVars
    /\ UNCHANGED rm_failed

\* main, lines 117-132, up to the call: the end of the loop, the missing
\* source, the arguments of the call
BamLoop ==
    /\ pc = "bam_loop"
    /\ IF idx > Len(fileMapping)
       THEN /\ pc' = "done"
            /\ UNCHANGED <<exc, exc_path, p, ret>>
       ELSE LET bigWig == fileMapping[idx].name
                bam == fileMapping[idx].path
            IN  IF SourceMissing(fileMapping, idx, fs)
                THEN /\ exc' = "FileNotFoundError"
                     /\ exc_path' = bam
                     /\ pc' = "raised"
                     /\ UNCHANGED <<p, ret>>
                ELSE /\ pc' = "cine_begin"
                     /\ ret' = "bam_after_call"
                     /\ p' = BamCall(bam, Join(OutDir, bigWig, "bw"), args)
                     /\ UNCHANGED <<exc, exc_path>>
    /\ UNCHANGED <<prog, fs, dirs, calls, removed, written, attempt, ret_code, all_valid,
                   made_dirs, renamed, checked, lastFailed, branch, fs0, args, which,
                   fileMapping, idx, reads, processed, run, prevNormal>>
    /\ UNCHANGED dataVars
    /\ UNCHANGED rm_failed

\* main, line 117: the next item of the loop
BamAfterCall ==
    /\ pc = "bam_after_call"
    /\ processed' = processed \cup {idx}
    /\ idx' = idx + 1
    /\ pc' = "bam_loop"
    /\ UNCHANGED <<prog, fs, dirs, exc, calls, removed, written, guardVars, args, which,
                   fileMapping, reads, exc_path, run, prevNormal>>
    /\ UNCHANGED dataVars
    /\ UNCHANGED rm_failed

\* ------------------------------------------------- get_bedGraph2bigWig.py

\* str.join takes one argument
StrJoinAccepts(nargs) == nargs = 1

\* main, lines 218-262: the checks, the file mapping, and the test of
\* --split-strand.  Line 231 calls '|'.join with two arguments; line 262
\* reads the name agrs.
BedGraphMain ==
    /\ pc = "idle"
    /\ prog = "bedGraph2bigWig"
    /\ \E a \in ArgSets(BOOLEAN, {FALSE}, {FALSE}, BOOLEAN) :
         LET st == Startup(<<"bedGraphToBigWig">>, which, dirs)
             ff == FetchFiles(a, "bedGraph", BedGraphNames, fs)
         IN  /\ SameInputs(a)
             /\ args' = a
             /\ IF st # "none"
                THEN /\ exc' = st
                     /\ pc' = "raised"
                     /\ UNCHANGED <<reads, fileMapping, idx>>
                ELSE IF a.input_format = "glob" /\ ~StrJoinAccepts(2)
                THEN /\ exc' = "TypeError"
                     /\ pc' = "raised"
                     /\ UNCHANGED <<reads, fileMapping, idx>>
                ELSE IF ff.exc # "none"
                THEN /\ exc' = ff.exc
                     /\ pc' = "raised"
                     /\ reads' = ff.reads
                     /\ UNCHANGED <<fileMapping, idx>>
                ELSE /\ reads' = ff.reads
                     /\ fileMapping' = ff.mapping
                     /\ idx' = 1
                     /\ IF ~Resolves("agrs", BedGraphNames)
                        THEN /\ exc' = "NameError"
                             /\ pc' = "raised"
                        ELSE /\ exc' = "none"
                             /\ pc' = "bedgraph_loop"
    /\ UNCHANGED <<prog, fs, dirs, calls, removed, written, guardVars, which, processed,
                   exc_path, run, prevNormal>>
    /\ UNCHANGED dataVars
    /\ UNCHANGED rm_failed

\* ------------------------------------------------------------- get_hub.py

\* main, lines 40-48: the staging directory, then the configuration file
HubMain ==
    /\ pc = "idle"
    /\ prog = "hub"
    /\ IF ~OutputDirExists(OutDir, dirs)
       THEN /\ exc' = "OSError"
            /\ pc' = "raised"
            /\ UNCHANGED reads
       ELSE /\ exc' = "none"
            /\ pc' = "hub_config"
            /\ reads' = {HubConfig}
    /\ UNCHANGED <<prog, fs, dirs, calls, removed, written, guardVars, args, which,
                   fileMapping, idx, processed, exc_path, run, prevNormal>>
    /\ UNCHANGED dataVars
    /\ UNCHANGED rm_failed

\* ----------------------------------------------- get_hub.py: the hub itself

\* A dict whose items are visited in order is the sequence of its
\* <<key, value>> items; the configuration itself is a function of its keys.
Keys(d) == [k \in 1..Len(d) |-> d[k][1]]
Has(d, key) == \E k \in 1..Len(d) : d[k][1] = key
Get(d, key) == d[CHOOSE k \in 1..Len(d) : d[k][1] = key][2]

\* a value of a settings mapping: yaml gives a str, an int or a bool; s is
\* the text str(value) gives
YamlStr(text) == [t |-> "str", s |-> text]
YamlInt(text) == [t |-> "int", s |-> text]

\* "{}='{}'".format(setting, value), executed: the parameter is the str
PyStr(value) == [t |-> "str", s |-> value.s]

\* the names of the tracks and of the files they are made from
BedTracks == <<"bed1", "bed2", "bed3">>
WigTracks == <<"wig1", "wig2", "wig3">>
SourceOf(track) == <<"data", track, "big">>

\* os.path.basename
Basename(path) == <<path[2], path[3]>>

Formats == <<"Bed", "Wig">>
FilesKey(fmt) == IF fmt = "Bed" THEN "bigBedFiles" ELSE "bigWigFiles"
GlobalKey(fmt) == IF fmt = "Bed" THEN "bigBedGlobalSettings" ELSE "bigWigGlobalSettings"
SettingsKey(fmt) == IF fmt = "Bed" THEN "bigBedFileSettings" ELSE "bigWigFileSettings"

\* a configuration with every key
FullConfig(super_tracks, bed_settings) ==
    [hub |-> "myhub",
     genomesFile |-> "hg38",
     email |-> "me@lab.org",
     shortLabel |-> "My hub",
     longLabel |-> "My hub, in full",
     bigBedFiles |-> [k \in 1..NumTracks |-> <<BedTracks[k], SourceOf(BedTracks[k])>>],
     bigBedGlobalSettings |-> <<<<"trackType", YamlStr("bigBed 12")>>,
                                <<"visibility", YamlStr("dense")>>,
                                <<"priority", YamlInt("2")>>>>,
     bigBedFileSettings |-> bed_settings,
     bigWigFiles |-> [k \in 1..NumTracks |-> <<WigTracks[k], SourceOf(WigTracks[k])>>],
     bigWigGlobalSettings |-> <<<<"trackType", YamlStr("bigWig")>>,
                                <<"visibility", YamlStr("full")>>>>,
     bigWigFileSettings |-> <<<<"wig1", <<<<"visibility", YamlStr("hide")>>>>>>>>,
     superTracks |-> super_tracks,
     superTrackSettings |-> <<<<"Grp1", <<<<"shortLabel", "Group one">>>>>>>>]

\* the values of superTracks: one group of one track; one group with a track
\* of each format; two groups
SuperTrackSets ==
    {<<<<"Grp1", <<"bed1">>>>>>,
     <<<<"Grp1", <<"bed1", "wig1">>>>>>,
     <<<<"Grp1", <<"bed2">>>>, <<"Grp2", <<"wig1">>>>>>,
     <<<<"Grp1", <<"bed1">>>>, <<"Grp2", <<"bed1">>>>>>}

\* the values of bigBedFileSettings: an entry that overrides one setting and
\* adds another; the same with an entry that sets trackType for one track
BedFileSettingsSets ==
    {<<<<"bed1", <<<<"visibility", YamlStr("full")>>,
                   <<"color", YamlStr("255,0,0")>>>>>>>>,
     <<<<"bed1", <<<<"visibility", YamlStr("full")>>,
                   <<"color", YamlStr("255,0,0")>>>>>>,
       <<"bed2", <<<<"trackType", YamlStr("bigBed 6")>>>>>>>>}

AllKeys ==
    {"hub", "genomesFile", "email", "shortLabel", "longLabel",
     "bigBedFiles", "bigBedGlobalSettings", "bigBedFileSettings",
     "bigWigFiles", "bigWigGlobalSettings", "bigWigFileSettings",
     "superTracks", "superTrackSettings"}

\* the configurations: any of the keys, with the values above
Configs ==
    {[k \in present |-> FullConfig(st, bs)[k]] :
        present \in (SUBSET AllKeys) \ {{}}, st \in SuperTrackSets,
        bs \in BedFileSettingsSets}

\* line 50: re.search('^big.+?Files$', k)
IsFilesKey(k) == k \in {"bigBedFiles", "bigWigFiles"}

\* lines 50-55: no key of the configuration names a list of files
NoFilesListed(c) == \A k \in DOMAIN c : ~IsFilesKey(k)

\* lines 56-60
RequiredKeys(c) ==
    <<"hub", "genomesFile", "email">>
    \o (IF "bigBedFiles" \in DOMAIN c THEN <<"bigBedFiles", "bigBedGlobalSettings">> ELSE <<>>)
    \o (IF "bigWigFiles" \in DOMAIN c THEN <<"bigWigFiles", "bigWigGlobalSettings">> ELSE <<>>)

\* check_keys_exist reporting the first missing key only
CheckKeysExistFirst(d, keys) ==
    LET missing_keys == SelectSeq(keys, LAMBDA k : k \notin DOMAIN d)
    IN  IF Len(missing_keys) > 0
        THEN [exc |-> "KeyError", msg |-> <<missing_keys[1]>>, ret |-> <<>>]
        ELSE [exc |-> "none", msg |-> <<>>, ret |-> [returned |-> missing_keys]]

\* utils.check_keys_exist, lines 435-443
check_keys_exist(d, keys) ==
    LET missing_keys == SelectSeq(keys, LAMBDA k : k \notin DOMAIN d)
    IN  IF Len(missing_keys) > 0
        THEN [exc |-> "KeyError", msg |-> missing_keys, ret |-> <<>>]
        ELSE [exc |-> "none", msg |-> <<>>, ret |-> [returned |-> missing_keys]]

\* main, lines 49-61
HubValidate ==
    /\ pc = "hub_config"
    /\ prog = "hub"
    /\ config # <<>>
    /\ IF NoFilesListed(config)
       THEN /\ exc' = "KeyError"
            /\ exc_path' = <<>>
            /\ pc' = "raised"
            /\ UNCHANGED keys_ret
       ELSE LET r == check_keys_exist(config, RequiredKeys(config))
            IN  /\ exc' = r.exc
                /\ exc_path' = r.msg
                /\ keys_ret' = r.ret
                /\ pc' = IF r.exc = "none" THEN "hub_labels" ELSE "raised"
    /\ UNCHANGED <<prog, fs, dirs, calls, removed, written, guardVars, args, which,
                   fileMapping, idx, reads, processed, run, prevNormal, rm_failed>>
    /\ UNCHANGED fnVars
    /\ UNCHANGED <<tableVars, schemaVars, config, py, hub, supers, tracks, trackDb, staged>>

\* dict.get(key, default)
GetOr(c, key, default) == IF key \in DOMAIN c THEN c[key] ELSE default

\* lines 64-68: config.get can not raise, so line 68 never runs
LongLabel(c) == GetOr(c, "longLabel", "shortLabel")
ShortLabel(c) == GetOr(c, "shortLabel", c["hub"])

\* main, lines 63-84: the hub, the genome, the genomes file, the track db
HubBuild ==
    /\ pc = "hub_labels"
    /\ hub' = [hub |-> config["hub"], short_label |-> ShortLabel(config),
               long_label |-> LongLabel(config), email |-> config["email"],
               genome |-> config["genomesFile"]]
    /\ pc' = "hub_super"
    /\ UNCHANGED <<prog, fs, dirs, exc, calls, removed, written, guardVars, mainVars>>
    /\ UNCHANGED fnVars
    /\ UNCHANGED <<tableVars, schemaVars, config, py, keys_ret, supers, tracks, trackDb,
                   staged>>

\* what the loops of main have built so far; exc is the exception that
\* ended them and key the key or name it reports
Built(e, k, s, t, db) == [exc |-> e, key |-> k, supers |-> s, tracks |-> t, trackDb |-> db]

\* lines 92-102, for one item of config['superTracks']
SuperTrackStep(c, persists, b, item) ==
    LET superTrack == item[1]
    IN  IF "superTrackSettings" \notin DOMAIN c
        THEN [b EXCEPT !.exc = "KeyError", !.key = "superTrackSettings"]
        ELSE LET defaultSuperTrackSettings ==
                     <<<<"shortLabel", superTrack>>, <<"longLabel", superTrack>>>>
                 settings ==
                     IF Has(c["superTrackSettings"], superTrack)
                     THEN Get(c["superTrackSettings"], superTrack)
                     ELSE defaultSuperTrackSettings
                 short == IF Has(settings, "shortLabel")
                          THEN Get(settings, "shortLabel") ELSE superTrack
                 long == IF Has(settings, "longLabel")
                         THEN Get(settings, "longLabel") ELSE superTrack
                 s == [name |-> superTrack, short_label |-> short, long_label |-> long]
             IN  IF persists
                 THEN [b EXCEPT !.supers = Append(@, s),
                                !.trackDb = Append(@, <<"super", superTrack>>)]
                 ELSE [b EXCEPT !.supers = Append(@, s),
                                !.exc = "NameError", !.key = superTrack]

\* lines 88-102: the loop stops at the first exception
RECURSIVE SuperTrackLoop(_, _, _, _)
SuperTrackLoop(c, persists, b, items) ==
    IF items = <<>> \/ b.exc # "none"
    THEN b
    ELSE SuperTrackLoop(c, persists, SuperTrackStep(c, persists, b, Head(items)), Tail(items))

\* line 90: the items of config['superTracks'], none without the key
SuperTrackItems(c) == IF "superTracks" \in DOMAIN c THEN c["superTracks"] ELSE <<>>

\* main, lines 88-102: one SuperTrack for each item of superTracks
HubSuperTracks ==
    /\ pc = "hub_super"
    /\ LET b == SuperTrackLoop(config, py.exec_persists,
                               Built("none", "", <<>>, <<>>, <<>>), SuperTrackItems(config))
       IN  /\ supers' = b.supers
           /\ trackDb' = b.trackDb
           /\ exc' = b.exc
           /\ exc_path' = IF b.exc = "none" THEN exc_path ELSE <<b.key>>
           /\ pc' = IF b.exc = "none" THEN "hub_grouped" ELSE "raised"
    /\ UNCHANGED <<prog, fs, dirs, calls, removed, written, guardVars, args, which,
                   fileMapping, idx, reads, processed, run, prevNormal, rm_failed>>
    /\ UNCHANGED fnVars
    /\ UNCHANGED <<tableVars, schemaVars, config, py, keys_ret, hub, tracks, staged>>

\* dict.pop(key) on a copy: the items without the key
Without(d, key) == SelectSeq(d, LAMBDA item : item[1] # key)

\* {**g, **f}: the items of g, each with the value f gives its key if any,
\* then the items of f whose keys g lacks
Merge(g, f) ==
    [k \in 1..Len(g) |-> IF Has(f, g[k][1]) THEN <<g[k][1], Get(f, g[k][1])>> ELSE g[k]]
    \o SelectSeq(f, LAMBDA item : ~Has(g, item[1]))

\* the per-track entry of the global settings alone
FinalSettingsGlobalOnly(gSettings, fSettings) == gSettings

\* lines 115-118 and 142-145; fSettings is <<"None">> for None
FinalSettings(gSettings, fSettings) ==
    IF fSettings # <<"None">> THEN Merge(gSettings, fSettings) ELSE gSettings

\* lines 111-126 and 138-153: the Track of one declared file; parent is
\* filled in by the caller
Instantiate(c, fmt, name) ==
    IF GlobalKey(fmt) \notin DOMAIN c
    THEN [exc |-> "KeyError", key |-> GlobalKey(fmt), track |-> <<>>]
    ELSE IF ~Has(c[GlobalKey(fmt)], "trackType")
    THEN [exc |-> "KeyError", key |-> "trackType", track |-> <<>>]
    ELSE IF SettingsKey(fmt) \notin DOMAIN c
    THEN [exc |-> "KeyError", key |-> SettingsKey(fmt), track |-> <<>>]
    ELSE LET source == Get(c[FilesKey(fmt)], name)
             gSettings == Without(c[GlobalKey(fmt)], "trackType")
             trackType == Get(c[GlobalKey(fmt)], "trackType")
             fSettings == IF Has(c[SettingsKey(fmt)], name)
                          THEN Get(c[SettingsKey(fmt)], name) ELSE <<"None">>
             finalSettings == FinalSettings(gSettings, fSettings)
         IN  [exc |-> "none", key |-> "",
              track |-> [name |-> name,
                         source |-> Basename(source),
                         url |-> Basename(source),
                         tracktype |-> trackType.s,
                         fmt |-> fmt,
                         params |-> [k \in 1..Len(finalSettings) |->
                                       <<finalSettings[k][1], PyStr(finalSettings[k][2])>>]]]

\* lines 107-128, for one name of a super-track: bound tells that the loop
\* variable track already names a Track object, which is in no mapping
RECURSIVE GroupedFormats(_, _, _, _, _, _)
GroupedFormats(c, b, superTrack, name, fmts, bound) ==
    IF fmts = <<>> \/ b.exc # "none"
    THEN b
    ELSE LET fmt == Head(fmts)
         IN  IF FilesKey(fmt) \notin DOMAIN c
             THEN [b EXCEPT !.exc = "KeyError", !.key = FilesKey(fmt)]
             ELSE IF bound \/ ~Has(c[FilesKey(fmt)], name)
             THEN GroupedFormats(c, b, superTrack, name, Tail(fmts), bound)
             ELSE LET r == Instantiate(c, fmt, name)
                  IN  IF r.exc # "none"
                      THEN [b EXCEPT !.exc = r.exc, !.key = r.key]
                      ELSE GroupedFormats(
                               c,
                               [b EXCEPT !.tracks =
                                   Append(@, [track |-> r.track, parent |-> superTrack])],
                               superTrack, name, Tail(fmts), TRUE)

\* line 106
RECURSIVE GroupedTracks(_, _, _, _)
GroupedTracks(c, b, superTrack, names) ==
    IF names = <<>> \/ b.exc # "none"
    THEN b
    ELSE GroupedTracks(c, GroupedFormats(c, b, superTrack, Head(names), Formats, FALSE),
                       superTrack, Tail(names))

\* line 105
RECURSIVE GroupedLoop(_, _, _)
GroupedLoop(c, b, items) ==
    IF items = <<>> \/ b.exc # "none"
    THEN b
    ELSE GroupedLoop(c, GroupedTracks(c, b, Head(items)[1], Head(items)[2]), Tail(items))

\* main, lines 105-128: the tracks of the super-tracks
HubGrouped ==
    /\ pc = "hub_grouped"
    /\ LET b == GroupedLoop(config, Built("none", "", supers, tracks, trackDb),
                            SuperTrackItems(config))
       IN  /\ tracks' = b.tracks
           /\ exc' = b.exc
           /\ exc_path' = IF b.exc = "none" THEN exc_path ELSE <<b.key>>
           /\ pc' = IF b.exc = "none" THEN "hub_ungrouped" ELSE "raised"
    /\ UNCHANGED <<prog, fs, dirs, calls, removed, written, guardVars, args, which,
                   fileMapping, idx, reads, processed, run, prevNormal, rm_failed>>
    /\ UNCHANGED fnVars
    /\ UNCHANGED <<tableVars, schemaVars, config, py, keys_ret, hub, supers, trackDb, staged>>

\* line 131: sum(superTracks.values(), []), as the set of the names
RECURSIVE Processed(_)
Processed(items) ==
    IF items = <<>> THEN {}
    ELSE {Head(items)[2][k] : k \in 1..Len(Head(items)[2])} \cup Processed(Tail(items))

\* lines 136-155, for the names of one format
RECURSIVE UngroupedTracks(_, _, _, _, _)
UngroupedTracks(c, b, fmt, names, done) ==
    IF names = <<>> \/ b.exc # "none"
    THEN b
    ELSE IF Head(names) \in done
    THEN UngroupedTracks(c, b, fmt, Tail(names), done)
    ELSE LET r == Instantiate(c, fmt, Head(names))
         IN  IF r.exc # "none"
             THEN [b EXCEPT !.exc = r.exc, !.key = r.key]
             ELSE UngroupedTracks(
                      c,
                      [b EXCEPT !.tracks = Append(@, [track |-> r.track, parent |-> "trackDb"]),
                                !.trackDb = Append(@, <<"track", Head(names)>>)],
                      fmt, Tail(names), done)

\* lines 132-136
RECURSIVE UngroupedLoop(_, _, _, _)
UngroupedLoop(c, b, fmts, done) ==
    IF fmts = <<>> \/ b.exc # "none"
    THEN b
    ELSE IF FilesKey(Head(fmts)) \notin DOMAIN c
    THEN [b EXCEPT !.exc = "KeyError", !.key = FilesKey(Head(fmts))]
    ELSE UngroupedLoop(c, UngroupedTracks(c, b, Head(fmts), Keys(c[FilesKey(Head(fmts))]), done),
                       Tail(fmts), done)

\* main, lines 131-155: the tracks of no super-track
HubUngrouped ==
    /\ pc = "hub_ungrouped"
    /\ LET b == UngroupedLoop(config, Built("none", "", supers, tracks, trackDb), Formats,
                              Processed(SuperTrackItems(config)))
       IN  /\ tracks' = b.tracks
           /\ trackDb' = b.trackDb
           /\ exc' = b.exc
           /\ exc_path' = IF b.exc = "none" THEN exc_path ELSE <<b.key>>
           /\ pc' = IF b.exc = "none" THEN "hub_stage" ELSE "raised"
    /\ UNCHANGED <<prog, fs, dirs, calls, removed, written, guardVars, args, which,
                   fileMapping, idx, reads, processed, run, prevNormal, rm_failed>>
    /\ UNCHANGED fnVars
    /\ UNCHANGED <<tableVars, schemaVars, config, py, keys_ret, hub, supers, staged>>

\* main, line 161: trackhub.upload.stage_hub links the source of each track
\* into the staging directory, and raises ValueError for a source it does
\* not find (lines 157-158)
HubStage ==
    /\ pc = "hub_stage"
    /\ staged' = TRUE
    /\ \E found \in BOOLEAN :
         /\ exc' = IF found THEN "none" ELSE "ValueError"
         /\ pc' = IF found THEN "done" ELSE "raised"
    /\ UNCHANGED <<prog, fs, dirs, calls, removed, written, guardVars, mainVars>>
    /\ UNCHANGED fnVars
    /\ UNCHANGED <<tableVars, schemaVars, config, py, keys_ret, hub, supers, tracks, trackDb>>

\* the interpreters: a name bound by exec in a function is found by the next
\* exec (CPython up to 3.12) or is not (CPython 3.13)
Interpreters == {[exec_persists |-> TRUE], [exec_persists |-> FALSE]}

\* --------------------------------------------------------- runs in a row

\* The entry point is run again on the files the run before left.
Rerun ==
    /\ pc \in {"done", "raised"}
    /\ prog \in {"bed2bigBed", "bam2bigWig"}
    /\ run < MaxRuns
    /\ run' = run + 1
    /\ prevNormal' = (pc = "done")
    /\ pc' = "idle"
    /\ exc' = "none"
    /\ exc_path' = <<>>
    /\ calls' = <<>>
    /\ removed' = {}
    /\ written' = {}
    /\ reads' = {}
    /\ processed' = {}
    /\ fileMapping' = <<>>
    /\ idx' = 0
    /\ p' = NoCall
    /\ ret' = "returned"
    /\ attempt' = 0
    /\ ret_code' = 0
    /\ all_valid' = TRUE
    /\ made_dirs' = {}
    /\ renamed' = {}
    /\ checked' = {}
    /\ lastFailed' = {}
    /\ branch' = "none"
    /\ fs0' = {}
    /\ rm_failed' = {}
    /\ UNCHANGED <<prog, fs, dirs, args, which>>
    /\ UNCHANGED dataVars

\* the program each entry point needs on the search path
ProgramOf(e) ==
    CASE e = "bed2bigBed" -> {"bedToBigBed"}
      [] e = "bam2bigWig" -> {"bamCoverage"}
      [] e = "bedGraph2bigWig" -> {"bedGraphToBigWig"}
      [] OTHER -> {}

\* the extension of the files each converter reads, and of those it makes
SourceExt(e) ==
    CASE e = "bed2bigBed" -> "bed"
      [] e = "bam2bigWig" -> "bam"
      [] OTHER -> "bedGraph"

FinalExt(e) == IF e = "bed2bigBed" THEN "bb" ELSE "bw"

\* The files before the first run: every source but at most one, any of the
\* final outputs, all or none of the temporary files, the chrom.sizes file or
\* not; nothing under an output directory that does not exist.
InitMain ==
    /\ prog \in {"bed2bigBed", "bam2bigWig", "bedGraph2bigWig", "hub"}
    /\ pc = "idle"
    /\ which \in {ProgramOf(prog), {}}
    /\ \E absent \in 0..NumEntries, outs \in SUBSET (1..NumEntries),
          tmps \in BOOLEAN, chrom \in BOOLEAN, outdir \in BOOLEAN :
         /\ (~outdir \/ prog \in {"bedGraph2bigWig", "hub"}) => (outs = {} /\ ~tmps)
         /\ prog # "bed2bigBed" => (~tmps /\ chrom)
         /\ prog \in {"bedGraph2bigWig", "hub"} => absent = 0
         /\ which = {} => (outs = {} /\ ~tmps /\ chrom /\ absent = 0)
         /\ fs = {Source(k, SourceExt(prog)) : k \in (1..NumEntries) \ {absent}}
                 \cup {Join(OutDir, BaseNames[k], FinalExt(prog)) : k \in outs}
                 \cup (IF tmps THEN {Join(OutDir, BaseNames[k], "bed") : k \in 1..NumEntries}
                       ELSE {})
                 \cup (IF chrom THEN {ChrSizes} ELSE {})
                 \cup {ConfigureFields, HubConfig}
         /\ dirs = {"in", "ref", "cfg"} \cup (IF outdir THEN {OutDir} ELSE {})
    /\ ret = "returned"
    /\ p = NoCall
    /\ attempt = 0
    /\ ret_code = 0
    /\ all_valid = TRUE
    /\ exc = "none"
    /\ calls = <<>>
    /\ made_dirs = {}
    /\ renamed = {}
    /\ removed = {}
    /\ checked = {}
    /\ lastFailed = {}
    /\ branch = "none"
    /\ fs0 = {}
    /\ written = {}
    /\ args = NoArgs
    /\ fileMapping = <<>>
    /\ idx = 0
    /\ reads = {}
    /\ processed = {}
    /\ exc_path = <<>>
    /\ run = 1
    /\ prevNormal = FALSE
    /\ rm_failed = {}
    /\ DataIdle

NextMain ==
    \/ BedMain \/ BedLoop \/ BedAfterCall
    \/ BamMain \/ BamLoop \/ BamAfterCall
    \/ BedGraphMain
    \/ HubMain
    \/ CineBegin \/ CineAttempt \/ CineFinish
    \/ Rerun

SpecMain == InitMain /\ [][NextMain]_vars

\* ------------------------------------------------ text, cells and tables

\* A text is the sequence of the code points of its characters; a cell of a
\* data frame is a str or an int.
StrCell(text) == [t |-> "str", s |-> text, n |-> 0]
IntCell(n) == [t |-> "int", s |-> <<>>, n |-> n]

\* the texts the tables, dicts and files below are made of
T1 == <<49>>
T2 == <<50>>
T10 == <<49, 48>>
TA == <<65>>
TB == <<66>>
TX == <<88>>
TChr == <<99, 104, 114>>

\* str.isdigit on a non-empty text
IsDigits(text) == text # <<>> /\ \A k \in 1..Len(text) : text[k] \in 48..57

RECURSIVE ToInt(_)
\* int(text)
ToInt(text) ==
    IF text = <<>> THEN 0
    ELSE ToInt(SubSeq(text, 1, Len(text) - 1)) * 10 + (text[Len(text)] - 48)

RECURSIVE ToText(_)
\* str(n)
ToText(n) == IF n < 10 THEN <<48 + n>> ELSE ToText(n \div 10) \o <<48 + (n % 10)>>

\* str(cell), which is also what to_csv writes for it
CellText(cell) == IF cell.t = "int" THEN ToText(cell.n) ELSE cell.s

RECURSIVE StrLess(_, _)
\* a < b on str: the order of the code points
StrLess(a, b) ==
    IF b = <<>> THEN FALSE
    ELSE IF a = <<>> THEN TRUE
    ELSE IF a[1] # b[1] THEN a[1] < b[1]
    ELSE StrLess(Tail(a), Tail(b))

\* pd.read_csv on one column: int64 when every entry is an integer, else str
ParseColumn(texts) ==
    IF texts # <<>> /\ \A k \in 1..Len(texts) : IsDigits(texts[k])
    THEN [k \in 1..Len(texts) |-> IntCell(ToInt(texts[k]))]
    ELSE [k \in 1..Len(texts) |-> StrCell(texts[k])]

\* the cells of a column that are of both types
Mixed(frame) == \E i, j \in 1..Len(frame) : frame[i].chrom.t # frame[j].chrom.t

\* a < b on cells of one type
CellLess(a, b) == IF a.t = "int" THEN a.n < b.n ELSE StrLess(a.s, b.s)

\* ------------------------------------------------------ _read_bed, _get_bed

\* _read_bed, lines 64-83: the chrom column is parsed, then cast to str
ReadBed(rows) ==
    LET col == ParseColumn([k \in 1..Len(rows) |-> rows[k].chrom])
    IN  [k \in 1..Len(rows) |->
            [chrom |-> StrCell(CellText(col[k])), start |-> rows[k].start, row |-> k]]

\* lines 95-98: the fields _get_bed looks up need this many columns
ColumnsNeeded(conv) == IF conv = "bed2bigBed" THEN 9 ELSE 6

\* lines 101-102: 'chr' + bed[chromField].astype(str)
AddChrPass(frame) ==
    [k \in 1..Len(frame) |->
        [frame[k] EXCEPT !.chrom = StrCell(TChr \o CellText(frame[k].chrom))]]

\* one item of the dict, matched against the names without their prefix
ChrDictItemBare(frame, chrom_old, chrom_new) ==
    [k \in 1..Len(frame) |->
        IF frame[k].chrom \in {StrCell(chrom_old), StrCell(TChr \o chrom_old)}
        THEN [frame[k] EXCEPT !.chrom = StrCell(chrom_new)]
        ELSE frame[k]]

\* lines 105-106: one item of the dict
ChrDictItem(frame, chrom_old, chrom_new) ==
    [k \in 1..Len(frame) |->
        IF frame[k].chrom = StrCell(chrom_old)
        THEN [frame[k] EXCEPT !.chrom = StrCell(chrom_new)]
        ELSE frame[k]]

RECURSIVE ChrDictPass(_, _)
\* lines 103-106: the items of the dict, one after the other, in its order
ChrDictPass(frame, chr_dict) ==
    IF chr_dict = <<>> THEN frame
    ELSE ChrDictPass(ChrDictItem(frame, chr_dict[1][1], chr_dict[1][2]), Tail(chr_dict))

\* lines 108-111: the file read as a Series (index: column 0, values: column 1)
ChrMap(chr_file) ==
    [keys |-> ParseColumn([k \in 1..Len(chr_file) |-> chr_file[k][1]]),
     values |-> ParseColumn([k \in 1..Len(chr_file) |-> chr_file[k][2]])]

\* line 112: bed.replace({chromField: chr_map})
ChrFilePass(frame, chr_map) ==
    [k \in 1..Len(frame) |->
        LET hits == {j \in 1..Len(chr_map.keys) : chr_map.keys[j] = frame[k].chrom}
        IN  IF hits = {} THEN frame[k]
            ELSE [frame[k] EXCEPT !.chrom =
                     chr_map.values[CHOOSE j \in hits : \A i \in hits : j <= i]]]

\* the order of sort_values([chromField, startField])
RowLeq(a, b) ==
    \/ CellLess(a.chrom, b.chrom)
    \/ a.chrom = b.chrom /\ a.start <= b.start

RECURSIVE InsertRow(_, _)
InsertRow(sorted, r) ==
    IF sorted = <<>> THEN <<r>>
    ELSE IF RowLeq(sorted[Len(sorted)], r) THEN Append(sorted, r)
    ELSE Append(InsertRow(SubSeq(sorted, 1, Len(sorted) - 1), r), sorted[Len(sorted)])

RECURSIVE SortValues(_)
\* line 115: bed.sort_values, rows that compare equal keeping their order
SortValues(frame) ==
    IF frame = <<>> THEN <<>>
    ELSE InsertRow(SortValues(SubSeq(frame, 1, Len(frame) - 1)), frame[Len(frame)])

\* lines 131-135: bed.to_csv, the rows as text
ToCsv(frame) ==
    [k \in 1..Len(frame) |-> [chrom |-> CellText(frame[k].chrom), start |-> frame[k].start]]

\* the tables a source file may hold
SourceRows == {[chrom |-> c, start |-> n] : c \in {T1, T2, T10}, n \in {1, 2}}
RECURSIVE Tables(_)
Tables(n) ==
    IF n = 0 THEN {<<>>}
    ELSE Tables(n - 1) \cup {Append(t, r) : t \in {u \in Tables(n - 1) : Len(u) = n - 1},
                                             r \in SourceRows}

\* the values of --chr-dict: none; one key; one key with the prefix; two
\* keys, the new name of one being the other, in both orders
ChrDicts ==
    {<<>>,
     <<<<T1, TA>>>>,
     <<<<TChr \o T1, TA>>>>,
     <<<<T1, T2>>, <<T2, TX>>>>,
     <<<<T2, TX>>, <<T1, T2>>>>}

\* the contents of --chr-file: none; names the dict gives and names it was
\* given; new names that are all integers; old names that are all integers
ChrFiles ==
    {<<>>,
     <<<<TA, TB>>, <<TChr \o T1, TX>>>>,
     <<<<TChr \o T2, T2>>, <<TChr \o T10, T10>>>>,
     <<<<T1, TChr \o T1>>, <<T2, TChr \o T2>>>>}

\* the temporary file before the call: absent, or left by something else
TmpFiles ==
    {[exists |-> FALSE, rows |-> <<>>],
     [exists |-> TRUE, rows |-> <<[chrom |-> T1, start |-> 1], [chrom |-> T2, start |-> 1]>>],
     [exists |-> TRUE, rows |-> <<[chrom |-> T2, start |-> 2], [chrom |-> T1, start |-> 1]>>]}

\* line 92 (_read_bed) and lines 95-98
GbRead ==
    /\ pc = "gb_read"
    /\ bedRead' = ReadBed(topts.rows)
    /\ bedFrame' = bedRead'
    /\ IF topts.columns < ColumnsNeeded(topts.conv)
       THEN exc' = "IndexError" /\ pc' = "raised"
       ELSE exc' = "none" /\ pc' = "gb_add_chr"
    /\ UNCHANGED <<prog, fs, dirs, calls, removed, written, guardVars, mainVars,
                   topts, bedAdd, bedDict, tmpBefore, tmpAfter>>
    /\ UNCHANGED schemaVars
    /\ UNCHANGED hubVars
    /\ UNCHANGED fnVars

\* lines 101-102
GbAddChr ==
    /\ pc = "gb_add_chr"
    /\ bedFrame' = IF topts.add_chr THEN AddChrPass(bedFrame) ELSE bedFrame
    /\ bedAdd' = bedFrame'
    /\ pc' = "gb_chr_dict"
    /\ UNCHANGED <<prog, fs, dirs, exc, calls, removed, written, guardVars, mainVars,
                   topts, bedRead, bedDict, tmpBefore, tmpAfter>>
    /\ UNCHANGED schemaVars
    /\ UNCHANGED hubVars
    /\ UNCHANGED fnVars

\* lines 103-106
GbChrDict ==
    /\ pc = "gb_chr_dict"
    /\ bedFrame' = IF topts.chr_dict # <<>> THEN ChrDictPass(bedFrame, topts.chr_dict) ELSE bedFrame
    /\ bedDict' = bedFrame'
    /\ pc' = "gb_chr_file"
    /\ UNCHANGED <<prog, fs, dirs, exc, calls, removed, written, guardVars, mainVars,
                   topts, bedRead, bedAdd, tmpBefore, tmpAfter>>
    /\ UNCHANGED schemaVars
    /\ UNCHANGED hubVars
    /\ UNCHANGED fnVars

\* lines 107-112; read_csv takes the keyword squeeze in pandas 1 only
GbChrFile ==
    /\ pc = "gb_chr_file"
    /\ IF topts.chr_file # <<>> /\ ~topts.squeeze
       THEN /\ exc' = "TypeError"
            /\ pc' = "raised"
            /\ UNCHANGED bedFrame
       ELSE /\ bedFrame' = IF topts.chr_file # <<>>
                      THEN ChrFilePass(bedFrame, ChrMap(topts.chr_file)) ELSE bedFrame
            /\ pc' = "gb_sort"
            /\ UNCHANGED exc
    /\ UNCHANGED <<prog, fs, dirs, calls, removed, written, guardVars, mainVars,
                   topts, bedRead, bedAdd, bedDict, tmpBefore, tmpAfter>>
    /\ UNCHANGED schemaVars
    /\ UNCHANGED hubVars
    /\ UNCHANGED fnVars

\* line 115; a column of str and int cells has no order
GbSort ==
    /\ pc = "gb_sort"
    /\ IF Mixed(bedFrame)
       THEN /\ exc' = "TypeError"
            /\ pc' = "raised"
            /\ UNCHANGED bedFrame
       ELSE /\ bedFrame' = SortValues(bedFrame)
            /\ pc' = "gb_write"
            /\ UNCHANGED exc
    /\ UNCHANGED <<prog, fs, dirs, calls, removed, written, guardVars, mainVars,
                   topts, bedRead, bedAdd, bedDict, tmpBefore, tmpAfter>>
    /\ UNCHANGED schemaVars
    /\ UNCHANGED hubVars
    /\ UNCHANGED fnVars

\* lines 126-138: the temporary file is written, or left as it is
GbWrite ==
    /\ pc = "gb_write"
    /\ tmpAfter' = IF tmpBefore.exists /\ ~topts.overwrite
                   THEN tmpBefore
                   ELSE [exists |-> TRUE, rows |-> ToCsv(bedFrame)]
    /\ pc' = "gb_done"
    /\ UNCHANGED <<prog, fs, dirs, exc, calls, removed, written, guardVars, mainVars,
                   topts, bedFrame, bedRead, bedAdd, bedDict, tmpBefore>>
    /\ UNCHANGED schemaVars
    /\ UNCHANGED hubVars
    /\ UNCHANGED fnVars

\* the guard and the entry points at rest
ControlIdle ==
    /\ fs = {}
    /\ dirs = {OutDir}
    /\ ret = "returned"
    /\ p = NoCall
    /\ attempt = 0
    /\ ret_code = 0
    /\ all_valid = TRUE
    /\ exc = "none"
    /\ calls = <<>>
    /\ made_dirs = {}
    /\ renamed = {}
    /\ removed = {}
    /\ checked = {}
    /\ lastFailed = {}
    /\ branch = "none"
    /\ fs0 = {}
    /\ written = {}
    /\ args = NoArgs
    /\ which = {}
    /\ fileMapping = <<>>
    /\ idx = 0
    /\ reads = {}
    /\ processed = {}
    /\ exc_path = <<>>
    /\ run = 1
    /\ prevNormal = FALSE
    /\ rm_failed = {}

\* One call of _get_bed with any table, options and temporary file.
InitTable ==
    /\ prog = "get_bed"
    /\ pc = "gb_read"
    /\ ControlIdle
    /\ topts \in [conv : {"bed2bigBed", "bedGraph2bigWig"}, columns : {4, 6, 12},
                  rows : Tables(MaxRows), add_chr : BOOLEAN, chr_dict : ChrDicts,
                  chr_file : ChrFiles, squeeze : BOOLEAN, overwrite : BOOLEAN]
    /\ topts.conv = "bed2bigBed" => topts.columns # 4
    /\ topts.columns < ColumnsNeeded(topts.conv)
          => (topts.chr_dict = <<>> /\ topts.chr_file = <<>> /\ ~topts.add_chr
              /\ ~topts.overwrite)
    /\ topts.chr_file = <<>> => topts.squeeze
    /\ tmpBefore \in TmpFiles
    /\ ~tmpBefore.exists => ~topts.overwrite
    /\ bedFrame = <<>>
    /\ bedRead = <<>>
    /\ bedAdd = <<>>
    /\ bedDict = <<>>
    /\ tmpAfter = <<>>
    /\ SchemaIdle
    /\ HubIdle
    /\ FnIdle

NextTable == GbRead \/ GbAddChr \/ GbChrDict \/ GbChrFile \/ GbSort \/ GbWrite

SpecTable == InitTable /\ [][NextTable]_vars

\* ------------------------------------- get_bed2bigBed.py: schema generation

\* "bed", "+" and the tags built from them
TBed == <<98, 101, 100>>
TPlus == <<43>>

\* lines 54-57
default_fields ==
    <<"chrom", "chromStart", "chromEnd", "name", "score", "strand",
      "thickStart", "thickEnd", "itemRgb", "blockCount", "blockSizes", "chromStarts">>

\* lines 36-52: the rows of AutoSqlStr, as (type, name, description)
AutoSqlStr ==
    <<<<"string", "chrom", "Chromosome or scaffold">>,
      <<"uint", "chromStart", "Feature start position on chromosome">>,
      <<"uint", "chromEnd", "Feature end position on chromosome">>,
      <<"string", "name", "Feature id">>,
      <<"uint", "score", "Score">>,
      <<"char[1]", "strand", "+ or -">>,
      <<"uint", "thickStart", "Feature start coordinate">>,
      <<"uint", "thickEnd", "Feature end coordinate">>,
      <<"uint", "reserved", "RGB custom colour scheme">>,
      <<"int", "blockCount", "Number of exons spanned by a feature">>,
      <<"int[blockCount]", "blockSizes", "Comma separated list of exons sizes">>,
      <<"int[blockCount]", "chromStarts", "Start positions of exons relative to chromStart">>>>

\* A line of the file is the list line.strip().split(',') gives; a line of
\* white space is <<>>.  The lines a file may hold: a blank line, three
\* lines "fieldName,type,standardName,description", a line with one item.
BlankLine == <<>>
FileLines ==
    {BlankLine,
     <<"chrom", "string", "chrom", "Chromosome">>,
     <<"name", "string", "name", "Feature id">>,
     <<"geneId", "lstring", "geneId", "Gene">>,
     <<"score">>}

RECURSIVE Files(_)
Files(n) ==
    IF n = 0 THEN {<<>>}
    ELSE Files(n - 1) \cup {Append(t, l) : t \in {u \in Files(n - 1) : Len(u) = n - 1},
                                            l \in FileLines}

\* lines 310-314: the index (from 0) at which the first loop stops on a
\* blank line; Len(lines) when it reads every line
BreakAt(lines) ==
    IF \E k \in 1..Len(lines) : lines[k] = BlankLine
    THEN (CHOOSE k \in 1..Len(lines) :
             lines[k] = BlankLine /\ \A j \in 1..(k - 1) : lines[j] # BlankLine) - 1
    ELSE Len(lines)

\* lines 309-313: n_fields, 0 unless the loop stopped on a blank line
NFields(lines) == IF BreakAt(lines) < Len(lines) THEN BreakAt(lines) ELSE 0

\* line 319: "if n_fields:"
HasExtra(lines) == NFields(lines) # 0

\* lines 310-326: the lines the two loops split and write
StandardLines(lines) == SubSeq(lines, 1, BreakAt(lines))
ExtraLines(lines) ==
    IF HasExtra(lines) THEN SubSeq(lines, NFields(lines) + 2, Len(lines)) ELSE <<>>

\* lines 315-317 and 322-324: fields[1], fields[2], fields[3] of a line
\* (a blank line splits into one empty item)
TooShort(fields) == Len(fields) < 4

\* lines 293-336
GenerateSchema(configure, lines) ==
    IF ~configure
    THEN [exc |-> "none", as_rows |-> AutoSqlStr, bed_type |-> TBed \o ToText(12),
          fields_to_keep |-> default_fields]
    ELSE LET std == StandardLines(lines)
             ext == ExtraLines(lines)
             all == std \o ext
         IN  IF \E k \in 1..Len(all) : TooShort(all[k])
             THEN [exc |-> "IndexError", as_rows |-> <<>>, bed_type |-> <<>>,
                   fields_to_keep |-> <<>>]
             ELSE [exc |-> "none",
                   as_rows |-> [k \in 1..Len(all) |-> <<all[k][2], all[k][3], all[k][4]>>],
                   bed_type |-> TBed \o ToText(Len(std)) \o
                                (IF HasExtra(lines) THEN TPlus \o ToText(Len(ext)) ELSE <<>>),
                   fields_to_keep |-> [k \in 1..Len(all) |-> all[k][1]]]

\* main, lines 293-336
MakeSchema ==
    /\ pc = "schema"
    /\ schema' = GenerateSchema(cfg.configure, cfg.lines)
    /\ exc' = schema'.exc
    /\ pc' = IF schema'.exc = "none" THEN "schema_done" ELSE "raised"
    /\ UNCHANGED <<prog, fs, dirs, calls, removed, written, guardVars, mainVars,
                   tableVars, cfg>>
    /\ UNCHANGED hubVars
    /\ UNCHANGED fnVars

InitSchema ==
    /\ prog = "schema"
    /\ pc = "schema"
    /\ ControlIdle
    /\ TableIdle
    /\ cfg \in [configure : BOOLEAN, lines : Files(MaxLines)]
    /\ ~cfg.configure => cfg.lines = <<>>
    /\ schema = <<>>
    /\ HubIdle
    /\ FnIdle

NextSchema == MakeSchema

SpecSchema == InitSchema /\ [][NextSchema]_vars

\* ------------------------------------------------- get_hub.py: one run

\* One run of get_hub with any configuration file.
InitHub ==
    /\ prog = "hub"
    /\ pc = "idle"
    /\ ControlIdle
    /\ TableIdle
    /\ SchemaIdle
    /\ config \in Configs
    /\ py \in Interpreters
    /\ NothingBuilt
    /\ FnIdle

NextHub ==
    \/ HubMain
    \/ HubValidate
    \/ HubBuild
    \/ HubSuperTracks
    \/ HubGrouped
    \/ HubUngrouped
    \/ HubStage

SpecHub == InitHub /\ [][NextHub]_vars

\* ------------------------------------------- functions called on their own

\* the rest of the state, which a function called on its own leaves alone
restVars ==
    <<prog, pc, fs, dirs, exc, calls, removed, written, guardVars, mainVars,
      tableVars, schemaVars, hubVars>>

\* the command lines, steps and exit codes check_call_step is called with
StepCmds == {"bedToBigBed in.bed chrom.sizes out.bb", "bamCoverage -b in.bam -o out.bw"}
Steps == -1..MaxStep
StepCodes == 0..MaxCode

\* check_call_step(cmd, current_step, init_step, call, raise_on_error), with
\* a command that exits with code when it is run
CallCheckCallStep ==
    /\ callee = "none"
    /\ \E cmd \in StepCmds, current_step \in Steps, init_step \in Steps,
          call \in BOOLEAN, raise_on_error \in BOOLEAN, code \in StepCodes :
         /\ given' = [cmd |-> cmd, current_step |-> current_step, init_step |-> init_step,
                      call |-> call, raise_on_error |-> raise_on_error, code |-> code]
         /\ result' = CheckCallStep(cmd, current_step, init_step, call, raise_on_error, code)
    /\ callee' = "check_call_step"
    /\ UNCHANGED restVars

\* ' ': the separator of str.join and of str.split
TSpace == <<32>>

\* sep.join(texts)
RECURSIVE JoinWith(_, _)
JoinWith(sep, texts) ==
    IF texts = <<>> THEN <<>>
    ELSE IF Len(texts) = 1 THEN texts[1]
    ELSE texts[1] \o sep \o JoinWith(sep, Tail(texts))

\* what a function returns: a list, or a str
PyList(items) == [t |-> "list", v |-> items]
PyText(text) == [t |-> "str", v |-> text]

\* utils.check_programs_exist, lines 172-192; found are the programs
\* shutil.which resolves. EnvironmentError is OSError.
CheckProgramsExist(programs, found, raise_on_error) ==
    LET missing_programs == MissingPrograms(programs, found)
    IN  IF Len(missing_programs) > 0
        THEN IF raise_on_error
             THEN [exc |-> "OSError", ret |-> <<>>]
             ELSE [exc |-> "none", ret |-> PyText(JoinWith(TSpace, missing_programs))]
        ELSE [exc |-> "none", ret |-> PyList(missing_programs)]

\* the program names: 'bedToBigBed', 'bamCoverage', 'sort'
ProgramNames == {<<98, 101, 100, 84, 111, 66, 105, 103, 66, 101, 100>>,
                 <<98, 97, 109, 67, 111, 118, 101, 114, 97, 103, 101>>,
                 <<115, 111, 114, 116>>}

\* the lists of at most n program names
RECURSIVE ProgramLists(_)
ProgramLists(n) ==
    IF n = 0 THEN {<<>>}
    ELSE ProgramLists(n - 1)
         \cup {Append(l, x) : l \in {q \in ProgramLists(n - 1) : Len(q) = n - 1},
                              x \in ProgramNames}

\* check_programs_exist(programs, raise_on_error), with any search path
CallCheckProgramsExist ==
    /\ callee = "none"
    /\ \E programs \in ProgramLists(MaxPrograms), found \in SUBSET ProgramNames,
          raise_on_error \in BOOLEAN :
         /\ given' = [programs |-> programs, found |-> found,
                      raise_on_error |-> raise_on_error]
         /\ result' = CheckProgramsExist(programs, found, raise_on_error)
    /\ callee' = "check_programs_exist"
    /\ UNCHANGED restVars

\* '-', the character str.strip('--') removes from both ends
Dash == 45

\* str.rsplit() with no argument: the words between runs of blanks
RECURSIVE Words(_)
Words(text) ==
    IF text = <<>> THEN <<>>
    ELSE IF Head(text) = TSpace[1] THEN Words(Tail(text))
    ELSE LET stop == IF \E k \in 1..Len(text) : text[k] = TSpace[1]
                     THEN CHOOSE k \in 1..Len(text) :
                              /\ text[k] = TSpace[1]
                              /\ \A j \in 1..(k - 1) : text[j] # TSpace[1]
                     ELSE Len(text) + 1
         IN  <<SubSeq(text, 1, stop - 1)>> \o Words(SubSeq(text, stop, Len(text)))

\* str.strip('--'): without the dashes at its two ends
RECURSIVE StripDashes(_)
StripDashes(text) ==
    IF text = <<>> THEN <<>>
    ELSE IF Head(text) = Dash THEN StripDashes(Tail(text))
    ELSE IF text[Len(text)] = Dash THEN StripDashes(SubSeq(text, 1, Len(text) - 1))
    ELSE text

\* final_options[key] = value: the value takes the place of the others
SetOption(d, key, val) ==
    IF Has(d, key)
    THEN [k \in 1..Len(d) |-> IF d[k][1] = key THEN <<key, <<val>>>> ELSE d[k]]
    ELSE Append(d, <<key, <<val>>>>)

\* line 29: final_options[key].append(value), final_options a defaultdict(list)
AppendOption(d, key, val) ==
    IF Has(d, key)
    THEN [k \in 1..Len(d) |-> IF d[k][1] = key THEN <<key, Append(d[k][2], val)>> ELSE d[k]]
    ELSE Append(d, <<key, <<val>>>>)

\* lines 28-29: IndexError for an option without a word
RECURSIVE FinalOptions(_, _)
FinalOptions(d, opts) ==
    IF opts = <<>> THEN [exc |-> "none", d |-> d]
    ELSE LET words == Words(Head(opts))
         IN  IF words = <<>> THEN [exc |-> "IndexError", d |-> d]
             ELSE FinalOptions(AppendOption(d, StripDashes(words[1]),
                                            JoinWith(TSpace, Tail(words))),
                               Tail(opts))

\* lines 31-32: '--{} {}'.format(key, val) for each key and each of its values
RECURSIVE OptionTokens(_)
OptionTokens(d) ==
    IF d = <<>> THEN <<>>
    ELSE [k \in 1..Len(d[1][2]) |-> <<Dash, Dash>> \o d[1][1] \o TSpace \o d[1][2][k]]
         \o OptionTokens(Tail(d))

\* what argparse leaves in args.dt_options: None, or the list of the strings
NoOptions == [none |-> TRUE, v |-> <<>>]
Options(list) == [none |-> FALSE, v |-> list]

\* _get_args(args), lines 21-33
GetArgs(dt_options) ==
    IF dt_options.none THEN [exc |-> "none", ret |-> <<>>]
    ELSE LET final_options == FinalOptions(<<>>, dt_options.v)
         IN  IF final_options.exc # "none"
             THEN [exc |-> final_options.exc, ret |-> <<>>]
             ELSE [exc |-> "none", ret |-> JoinWith(TSpace, OptionTokens(final_options.d))]

\* '--ignoreDuplicates'
TIgnoreDuplicates == <<45, 45, 105, 103, 110, 111, 114, 101, 68, 117, 112, 108, 105, 99, 97, 116, 101, 115>>

\* the option strings of --dt-options: '--binSize 10', '--binSize 20',
\* '--normalizeUsing RPKM', '--ignoreDuplicates', and two that are not of the
\* form '--key value': '-p 4' and ''
OptionStrings ==
    {<<45, 45, 98, 105, 110, 83, 105, 122, 101, 32, 49, 48>>,
     <<45, 45, 98, 105, 110, 83, 105, 122, 101, 32, 50, 48>>,
     <<45, 45, 110, 111, 114, 109, 97, 108, 105, 122, 101, 85, 115, 105, 110, 103, 32, 82, 80, 75, 77>>,
     TIgnoreDuplicates,
     <<45, 112, 32, 52>>,
     <<>>}

\* the lists of at most n option strings
RECURSIVE OptionLists(_)
OptionLists(n) ==
    IF n = 0 THEN {<<>>}
    ELSE OptionLists(n - 1)
         \cup {Append(l, x) : l \in {q \in OptionLists(n - 1) : Len(q) = n - 1},
                              x \in OptionStrings}

\* get_bam2bigWig.py line 88: _get_args(args.dt_options)
CallGetArgs ==
    /\ callee = "none"
    /\ \E dt_options \in {Options(l) : l \in OptionLists(MaxOptions)} \cup {NoOptions} :
         /\ given' = [args |-> dt_options]
         /\ result' = GetArgs(dt_options)
    /\ callee' = "_get_args"
    /\ UNCHANGED restVars

\* One call of one function of utils.py or of _get_args, with any arguments.
InitFunctions ==
    /\ prog = "function"
    /\ pc = "idle"
    /\ ControlIdle
    /\ DataIdle

NextFunctions ==
    \/ CallCheckCallStep
    \/ CallCheckProgramsExist
    \/ CallGetArgs

SpecFunctions == InitFunctions /\ [][NextFunctions]_vars

\* ------------------------------------------- claims on call_if_not_exists

\* call_if_not_exists has been entered and its input check has run
InCall == pc \in {"cine_attempt", "cine_finish", "returned", "raised"}

\* the call is over: it returned or an exception left it
CallOver == pc \in {"returned", "raised"}

\* every path of in_files existed on entry
InputsExisted == \A k \in 1..Len(p.in_files) : p.in_files[k].path \in fs0

\* out_files is a list (or str) and every path of it existed on entry
OutputsExisted ==
    /\ p.out_files.kind # "None"
    /\ \A k \in 1..Len(p.out_files.v) : p.out_files.v[k] \in fs0

\* out_files is a list (or str) and some path of it did not exist on entry
SomeOutputMissing ==
    /\ p.out_files.kind # "None"
    /\ \E k \in 1..Len(p.out_files.v) : p.out_files.v[k] \notin fs0

\* C1: when every input exists, every output exists and overwrite is false,
\* the call returns 0 and the command is never executed, whatever call,
\* raise_on_error, file_checkers and num_attempts are.
C1_SkipWhenOutputsExist ==
    (InCall /\ InputsExisted /\ OutputsExisted /\ ~p.overwrite)
        => /\ calls = <<>>
           /\ branch = "skip"
           /\ pc \in {"cine_finish", "returned"}
           /\ exc = "none"
           /\ ret_code = 0

C1_Witness ==
    /\ pc = "returned"
    /\ InputsExisted /\ OutputsExisted /\ ~p.overwrite
    /\ p.in_files # <<>>
    /\ p.call /\ p.raise_on_error
    /\ p.file_checkers.kind # "None"
    /\ p.num_attempts = MaxAttempts
    /\ ret_code = 0 /\ calls = <<>>

AttemptsExhausted ==
    /\ CallOver
    /\ branch = "loop"
    /\ p.num_attempts >= 1
    /\ attempt = p.num_attempts
    /\ lastFailed # {}
    /\ lastFailed \subseteq renamed
    /\ exc \notin {"CalledProcessError", "FileNotFoundError"}

C5_DeleteOnlyAfterSuccess ==
    CallOver
        => /\ removed # {} => (calls # <<>> /\ ret_code = 0 /\ all_valid)
           /\ p.keep_delete_files => removed = {}


\* --------------------------------------------------- claims on the converters

Converters == {"bed2bigBed", "bam2bigWig"}

\* the run got past the checks of the programs and of the output path
Started == pc # "idle" /\ which # {} /\ OutDir \in dirs

\* the loop is at item idx, in the call it makes for it or just after
InItem == idx \in 1..Len(fileMapping)

AfterGuard ==
    /\ prog \in Converters
    /\ InItem
    /\ \/ pc \in {"bed_after_call", "bam_after_call"}
       \/ pc = "raised" /\ exc = "CalledProcessError"

\* the final output of item k, and the invocations that name it
FinalOutput(k) == Join(OutDir, fileMapping[k].name, FinalExt(prog))
CallsFor(out) == {c \in 1..Len(calls) : calls[c].outs = <<out>>}
InvokedFor(k) == CallsFor(FinalOutput(k)) # {}

C6_PerEntry ==
    AfterGuard
        => /\ InvokedFor(idx) <=> (args.overwrite \/ FinalOutput(idx) \notin fs0)
           /\ Cardinality(CallsFor(FinalOutput(idx))) <= 1
           /\ ~InvokedFor(idx)
                 => /\ FinalOutput(idx) \in fs
                    /\ FinalOutput(idx) \notin written \cup removed

C6_SecondRun ==
    (prog \in Converters /\ run > 1 /\ prevNormal /\ pc # "idle" /\ ~args.overwrite)
        => calls = <<>>

C6_OverwriteRun ==
    (prog \in Converters /\ pc = "done" /\ args.overwrite)
        => /\ Len(calls) = Len(fileMapping)
           /\ \A k \in 1..Len(fileMapping) : Cardinality(CallsFor(FinalOutput(k))) = 1

\* C6: in get_bed2bigBed and get_bam2bigWig, for every item whose source
\* exists, the binary is invoked for the item iff --overwrite is set or the
\* item's final output does not exist, and when it is not invoked the final
\* output is left as it was; a second run after a run that ended normally,
\* without --overwrite, makes no invocation, and a run with --overwrite that
\* ends normally makes one invocation per item.
C6_InvokedIffNeeded == C6_PerEntry /\ C6_SecondRun /\ C6_OverwriteRun

\* What is left of C6 when the chrom.sizes file exists: the same three
\* statements, for the calls and the runs that find that file.
C6_WithChromSizes ==
    /\ (prog = "bed2bigBed" /\ AfterGuard /\ ChrSizes \notin fs0) \/ C6_PerEntry
    /\ C6_SecondRun
    /\ (prog = "bed2bigBed" /\ ChrSizes \notin fs) \/ C6_OverwriteRun

\* C7: get_bam2bigWig builds a file mapping in each of the three input modes
\* (glob, txt, yaml with an existing key), and invokes bamCoverage once for
\* every source whose output is absent, with the output {outputDir}/{name}.bw;
\* with yaml and a missing key it raises KeyError.
C7_BamInputModes ==
    (prog = "bam2bigWig" /\ Started)
        => IF args.input_format = "yaml" /\ ~args.key_ok
           THEN pc = "raised" /\ exc = "KeyError"
           ELSE /\ exc \notin {"NameError", "KeyError"}
                /\ (pc = "bam_after_call" /\ FinalOutput(idx) \notin fs0)
                      => /\ Cardinality(CallsFor(FinalOutput(idx))) = 1
                         /\ calls[Len(calls)].ins = <<fileMapping[idx].path>>
                /\ (pc = "done" /\ run = 1 /\ written = Range(
                        [k \in 1..Len(fileMapping) |-> FinalOutput(k)]))
                      => Len(calls) = Len(fileMapping)

\* C8: get_bedGraph2bigWig without --split-strand and without --skip does not
\* fail, in any input mode, and invokes bedGraphToBigWig once per mapped file
\* with the final track {outputDir}/{name}.bw; the failure of the strand-split
\* test happens only with --split-strand.
C8_BedGraphPlainRun ==
    (prog = "bedGraph2bigWig" /\ Started /\ (args.input_format = "yaml" => args.key_ok))
        => /\ exc = "NameError" => args.split_strand
           /\ (~args.split_strand /\ ~args.skip)
                 => /\ pc # "raised"
                    /\ pc = "done"
                          => \A k \in 1..Len(fileMapping) :
                                Cardinality(CallsFor(FinalOutput(k))) = 1

\* C9: in the per-file loop of a converter, an item whose source does not
\* exist raises FileNotFoundError naming that source: the loop never makes
\* the call for such an item, nothing is written or invoked for it or for a
\* later item, and every item before it has been through the whole loop body.
C9_MissingSourceStopsLoop ==
    /\ (prog \in Converters /\ InItem
          /\ pc \in {"cine_begin", "cine_attempt", "cine_finish",
                     "bed_after_call", "bam_after_call"})
          => Exists(fileMapping[idx].path, fs)
    /\ (prog \in Converters /\ pc = "raised" /\ exc = "FileNotFoundError")
          => /\ InItem
             /\ ~Exists(fileMapping[idx].path, fs)
             /\ exc_path = fileMapping[idx].path
             /\ processed = 1..(idx - 1)
             /\ \A k \in idx..Len(fileMapping) :
                  /\ Join(OutDir, fileMapping[k].name, "bed") \notin written
                  /\ FinalOutput(k) \notin written
                  /\ ~InvokedFor(k)
                  /\ fileMapping[k].path \notin reads

C9_Witness ==
    /\ prog \in Converters
    /\ pc = "raised"
    /\ exc = "FileNotFoundError"
    /\ idx = 2
    /\ processed = {1}
    /\ InvokedFor(1)
    /\ exc_path = fileMapping[2].path

OldNames(pairs) == {pairs[j][1] : j \in 1..Len(pairs)}
NewName(pairs, old) ==
    pairs[CHOOSE j \in 1..Len(pairs) :
             pairs[j][1] = old /\ \A i \in 1..Len(pairs) : pairs[i][1] = old => j <= i][2]

\* no new name of the dict is one of its old names
Unchained(pairs) == \A i, j \in 1..Len(pairs) : pairs[i][2] # pairs[j][1]

\* C11: _get_bed renames in the order --add-chr, --chr-dict, --chr-file: the
\* prefix is on every name the dict is matched against, a row is changed by
\* the dict only if its prefixed name is a key (and gets that key's value
\* when no value of the dict is a key), and a row is changed by the file only
\* if the name the dict pass left is an old name of the file (and gets its
\* new name when the file's old names are read as text).
C11_RenamingOrder ==
    (prog = "get_bed" /\ pc = "gb_sort")
        => \A k \in 1..Len(bedRead) :
             LET r == bedRead[k].chrom
                 a == bedAdd[k].chrom
                 d == bedDict[k].chrom
                 f == bedFrame[k].chrom
             IN  /\ a = IF topts.add_chr THEN StrCell(TChr \o r.s) ELSE r
                 /\ d # a => a.s \in OldNames(topts.chr_dict)
                 /\ (a.s \in OldNames(topts.chr_dict) /\ Unchained(topts.chr_dict))
                       => d = StrCell(NewName(topts.chr_dict, a.s))
                 /\ f # d => d.s \in OldNames(topts.chr_file)
                 /\ (d.s \in OldNames(topts.chr_file)
                       /\ ChrMap(topts.chr_file).keys[1].t = "str")
                       => CellText(f) = NewName(topts.chr_file, d.s)

C11_Witness ==
    /\ prog = "get_bed"
    /\ pc = "gb_sort"
    /\ topts.add_chr
    /\ topts.chr_dict = <<<<TChr \o T1, TA>>>>
    /\ \E k \in 1..Len(bedRead) :
         /\ bedRead[k].chrom = StrCell(T1)
         /\ bedAdd[k].chrom = StrCell(TChr \o T1)
         /\ bedDict[k].chrom = StrCell(TA)
         /\ bedFrame[k].chrom = StrCell(TB)

\* C12: after the --chr-dict pass with a non-empty dict, every row whose name
\* was an old key k has the name D[k], every other row has the name it had,
\* and the pass applied again changes nothing.
C12_ChrDictPass ==
    (prog = "get_bed" /\ pc = "gb_chr_file" /\ topts.chr_dict # <<>>)
        => /\ \A k \in 1..Len(bedAdd) :
                IF bedAdd[k].chrom.s \in OldNames(topts.chr_dict)
                THEN bedDict[k].chrom = StrCell(NewName(topts.chr_dict, bedAdd[k].chrom.s))
                ELSE bedDict[k].chrom = bedAdd[k].chrom
           /\ ChrDictPass(bedDict, topts.chr_dict) = bedDict

\* the rows of a written table are in order: chrom as text, then start
SortedRows(rows) ==
    \A k \in 1..(Len(rows) - 1) :
        \/ StrLess(rows[k].chrom, rows[k + 1].chrom)
        \/ rows[k].chrom = rows[k + 1].chrom /\ rows[k].start <= rows[k + 1].start

\* C13: the temporary file _get_bed returns is sorted by (chrom, start), chrom
\* in the order of text, also when the file existed before the call and
\* --overwrite is not set.
C13_TemporarySorted ==
    (prog = "get_bed" /\ pc = "gb_done") => SortedRows(tmpAfter.rows)

\* What is left of C13 for the files the call writes whose names are text.
C13_WrittenTextSorted ==
    (prog = "get_bed" /\ pc = "gb_done" /\ ~(tmpBefore.exists /\ ~topts.overwrite)
       /\ \A k \in 1..Len(bedFrame) : bedFrame[k].chrom.t = "str")
        => SortedRows(tmpAfter.rows)


\* -------------------------------------------- claims on schema generation

\* every line but the blank ones has its four items, and no line after the
\* first blank line is blank
WellFormed(lines) ==
    /\ \A k \in 1..Len(lines) : lines[k] # BlankLine => Len(lines[k]) = 4
    /\ Cardinality({k \in 1..Len(lines) : lines[k] = BlankLine}) <= 1

SchemaMade == prog = "schema" /\ pc \in {"schema_done", "raised"}

\* the S lines before the first blank line and the E lines after it
FieldLinesOf(lines) == SelectSeq(lines, LAMBDA l : l # BlankLine)
CountBefore(lines) == BreakAt(lines)
CountAfter(lines) == Len(lines) - BreakAt(lines) - 1

C14_Configured ==
    (SchemaMade /\ cfg.configure /\ WellFormed(cfg.lines))
        => LET fl == FieldLinesOf(cfg.lines)
           IN  /\ exc = "none"
               /\ schema.bed_type =
                     IF BlankLine \in Range(cfg.lines)
                     THEN TBed \o ToText(CountBefore(cfg.lines)) \o TPlus
                               \o ToText(CountAfter(cfg.lines))
                     ELSE TBed \o ToText(Len(cfg.lines))
               /\ schema.as_rows = [k \in 1..Len(fl) |-> <<fl[k][2], fl[k][3], fl[k][4]>>]
               /\ schema.fields_to_keep = [k \in 1..Len(fl) |-> fl[k][1]]

C14_Default ==
    (SchemaMade /\ ~cfg.configure)
        => /\ exc = "none"
           /\ schema.bed_type = <<98, 101, 100, 49, 50>>
           /\ Len(schema.fields_to_keep) = 12
           /\ schema.fields_to_keep = default_fields
           /\ Len(schema.as_rows) = 12

\* C14: from a --configure-fields file with S field lines before the first
\* blank line and E after it, the type tag is "bed"S without a blank line and
\* "bed"S"+"E with one, the schema file lists the S+E fields in file order as
\* (type, standard name, description) and fields_to_keep is the first item
\* of each line in that order; without --configure-fields the tag is "bed12"
\* and the 12 default fields are used.
C14_SchemaGeneration == C14_Configured /\ C14_Default

\* What is left of C14 when at least one field line comes before the blank
\* line.
C14_WithStandardFields ==
    /\ (SchemaMade /\ cfg.configure /\ CountBefore(cfg.lines) = 0
          /\ BlankLine \in Range(cfg.lines)) \/ C14_Configured
    /\ C14_Default


\* ------------------------------------------- claims on the temporary file

\* the temporary file of item k
TmpOf(k) == Join(OutDir, fileMapping[k].name, "bed")

\* C15: get_bed2bigBed without --skip: once _convert has returned for an
\* item, the item's temporary file exists if --keep is set and, if it is not
\* set, does not exist unless os.remove failed; a failed removal raises
\* nothing, the loop goes on to the next item.
C15_TemporaryRemoved ==
    (prog = "bed2bigBed" /\ ~args.skip)
        => \A k \in 1..Len(fileMapping) :
             /\ k \in processed
                   => /\ args.keep => TmpOf(k) \in fs
                      /\ (~args.keep /\ TmpOf(k) \notin rm_failed) => TmpOf(k) \notin fs
             /\ TmpOf(k) \in rm_failed => (k \in processed /\ ~args.keep)
             /\ TmpOf(k) \in removed => ~args.keep

C15_Witness ==
    /\ prog = "bed2bigBed"
    /\ ~args.skip
    /\ ~args.keep
    /\ processed = {1, 2}
    /\ pc = "done"
    /\ TmpOf(1) \in written
    /\ TmpOf(1) \in removed
    /\ TmpOf(1) \notin fs
    /\ TmpOf(2) \in rm_failed
    /\ TmpOf(2) \in fs

\* ------------------------------------------------------- claims on get_hub

\* get_hub is past the validation of lines 49-61
Validated == prog = "hub" /\ pc \notin {"idle", "hub_config"}

\* the configuration names the files of a format
ListsFiles(c) == "bigBedFiles" \in DOMAIN c \/ "bigWigFiles" \in DOMAIN c

\* the keys a hub needs: hub, genomesFile, email, and the global
\* settings of each format whose files are declared
WantedKeys(c) ==
    {"hub", "genomesFile", "email"}
    \cup {GlobalKey(fmt) : fmt \in {f \in {"Bed", "Wig"} : FilesKey(f) \in DOMAIN c}}

\* C16: a configuration that declares the files of a format and lacks some
\* of hub, genomesFile, email or the global settings of a declared format
\* ends in a KeyError naming every missing key and no other, with no hub,
\* super-track, track or track db entry built and nothing staged; with no
\* key missing, check_keys_exist returned the empty list.
C16_ValidationNamesMissing ==
    (Validated /\ ListsFiles(config))
        => LET missing == WantedKeys(config) \ DOMAIN config
           IN  /\ missing # {}
                     => /\ pc = "raised"
                        /\ exc = "KeyError"
                        /\ {exc_path[k] : k \in 1..Len(exc_path)} = missing
                        /\ NothingBuilt
               /\ missing = {} => keys_ret = [returned |-> <<>>]

\* C16 (witness): the run ended in the KeyError of check_keys_exist for a
\* configuration with bigWigFiles, without bigWigGlobalSettings and email.
C16_Witness ==
    /\ prog = "hub"
    /\ pc = "raised"
    /\ exc = "KeyError"
    /\ "bigWigFiles" \in DOMAIN config
    /\ "bigWigGlobalSettings" \notin DOMAIN config
    /\ "email" \notin DOMAIN config
    /\ Len(exc_path) >= 2

\* the Hub object exists
HubBuilt == prog = "hub" /\ hub # <<>>

\* C20: the short label of the hub is shortLabel when the configuration has
\* it and the hub name otherwise; the long label is longLabel when the
\* configuration has it and the hub name otherwise.
C20_LabelDefaults ==
    HubBuilt
        => /\ hub.short_label = IF "shortLabel" \in DOMAIN config
                                THEN config["shortLabel"] ELSE config["hub"]
           /\ hub.long_label = IF "longLabel" \in DOMAIN config
                               THEN config["longLabel"] ELSE config["hub"]

\* C20 (the short label alone, and the long label when it is configured)
C20_ShortLabelDefault ==
    HubBuilt
        => /\ hub.short_label = IF "shortLabel" \in DOMAIN config
                                THEN config["shortLabel"] ELSE config["hub"]
           /\ "longLabel" \in DOMAIN config => hub.long_label = config["longLabel"]

\* the configuration has hub, genomesFile and email, the files and the
\* global settings of fmt, and no key of the other format
SingleFormat(c, fmt) ==
    LET other == IF fmt = "Bed" THEN "Wig" ELSE "Bed"
    IN  /\ {"hub", "genomesFile", "email", FilesKey(fmt), GlobalKey(fmt)} \subseteq DOMAIN c
        /\ DOMAIN c \cap {FilesKey(other), GlobalKey(other), SettingsKey(other)} = {}

\* the names of the Track objects made so far, in order
TrackNames == [k \in 1..Len(tracks) |-> tracks[k].track.name]

\* how many Track objects have the name
Instances(name) == Cardinality({k \in 1..Len(tracks) : tracks[k].track.name = name})

\* the tracks the configuration declares for the format
Declared(c, fmt) ==
    IF FilesKey(fmt) \in DOMAIN c
    THEN {c[FilesKey(fmt)][k][1] : k \in 1..Len(c[FilesKey(fmt)])}
    ELSE {}

\* the loops of lines 105-155 are over
Instantiated == prog = "hub" /\ pc \in {"hub_stage", "done"}

\* C18: a configuration with hub, genomesFile, email and one declared
\* format passes the validation, raises no KeyError afterwards, and has one
\* Track per declared file once the loops are over.
C18_SingleFormatCompletes ==
    \A fmt \in {"Bed", "Wig"} :
        (prog = "hub" /\ config # <<>> /\ SingleFormat(config, fmt))
            => /\ pc = "raised" => exc # "KeyError"
               /\ Validated => keys_ret = [returned |-> <<>>]
               /\ (Instantiated \/ staged)
                     => /\ Len(tracks) = Cardinality(Declared(config, fmt))
                        /\ \A name \in Declared(config, fmt) : Instances(name) = 1

\* C18 (what the code does instead): a configuration with one declared
\* format passes the validation and never reaches the staging step.
C18_SingleFormatNeverStaged ==
    \A fmt \in {"Bed", "Wig"} :
        (prog = "hub" /\ config # <<>> /\ SingleFormat(config, fmt))
            => /\ Validated => keys_ret = [returned |-> <<>>]
               /\ ~Instantiated
               /\ ~staged

\* a mapping of settings as the set of its <<key, text of the value>> pairs
SettingsOf(d) == {<<d[k][1], d[k][2].s>> : k \in 1..Len(d)}

\* the settings a track is to have: the global settings of its
\* format without trackType, each overridden by the entry of the track in
\* the per-file settings, and the settings only that entry has
Resolved(c, fmt, name) ==
    LET global == {kv \in SettingsOf(c[GlobalKey(fmt)]) : kv[1] # "trackType"}
        entry == IF SettingsKey(fmt) \in DOMAIN c /\ Has(c[SettingsKey(fmt)], name)
                 THEN SettingsOf(Get(c[SettingsKey(fmt)], name))
                 ELSE {}
    IN  {kv \in global : \A e \in entry : e[1] # kv[1]} \cup entry

\* every Track object has the resolved settings as its parameters
ParamsResolved ==
    \A k \in 1..Len(tracks) :
        SettingsOf(tracks[k].track.params)
            = Resolved(config, tracks[k].track.fmt, tracks[k].track.name)

\* the run ended in a KeyError that names the key
KeyErrorOn(key) == pc = "raised" /\ exc = "KeyError" /\ exc_path = <<key>>

\* C19: the parameters of each track are the global settings of its format
\* without trackType, overridden key by key by the entry of the track in
\* big<Format>FileSettings; a configuration without big<Format>FileSettings
\* is accepted and gives the global settings without trackType.
C19_ResolvedSettings ==
    prog = "hub"
        => /\ ParamsResolved
           /\ \A fmt \in {"Bed", "Wig"} : ~KeyErrorOn(SettingsKey(fmt))

\* C19 (the merge alone): the parameters of each track made are the
\* resolved settings.
C19_MergeOfTracksMade == prog = "hub" => ParamsResolved

\* the names listed under the super-tracks, and under one of them
Grouped(c) == Processed(SuperTrackItems(c))
GroupOf(c, superTrack) ==
    {Get(c["superTracks"], superTrack)[k] : k \in 1..Len(Get(c["superTracks"], superTrack))}

\* how many times the entry was added to the track db
Attached(entry) == Cardinality({k \in 1..Len(trackDb) : trackDb[k] = entry})

\* every declared track is one Track object; it is under its super-track
\* and not in the track db, or in the track db when no super-track lists
\* it; every super-track is in the track db once
TracksPlaced ==
    /\ \A name \in Declared(config, "Bed") \cup Declared(config, "Wig") :
         /\ Instances(name) = 1
         /\ \A k \in 1..Len(tracks) :
              tracks[k].track.name = name
                 => IF name \in Grouped(config)
                    THEN /\ tracks[k].parent # "trackDb"
                         /\ name \in GroupOf(config, tracks[k].parent)
                         /\ Attached(<<"track", name>>) = 0
                    ELSE /\ tracks[k].parent = "trackDb"
                         /\ Attached(<<"track", name>>) = 1
    /\ \A k \in 1..Len(SuperTrackItems(config)) :
         Attached(<<"super", SuperTrackItems(config)[k][1]>>) = 1

\* the run ended in an exception raised before the staging step
FailedBeforeStaging == pc = "raised" /\ ~staged

\* C17: a configuration that passes the validation is assembled without an
\* exception, and once the loops are over every declared track is
\* instantiated exactly once, under its super-track or else directly in the
\* track db, with every super-track in the track db exactly once.
C17_EveryTrackOnce ==
    (Validated /\ keys_ret = [returned |-> <<>>])
        => /\ ~FailedBeforeStaging
           /\ Instantiated => TracksPlaced

\* no name is listed under two super-tracks
RECURSIVE DisjointGroups(_)
DisjointGroups(items) ==
    \/ items = <<>>
    \/ /\ DisjointGroups(Tail(items))
       /\ {Head(items)[2][k] : k \in 1..Len(Head(items)[2])} \cap Processed(Tail(items)) = {}

\* the configuration has the files, the global and the per-file settings of
\* both formats, the settings of the super-tracks if it has super-tracks,
\* no name under two super-tracks, and the interpreter keeps the names
\* that exec binds
EveryKey ==
    /\ \A fmt \in {"Bed", "Wig"} :
         {FilesKey(fmt), GlobalKey(fmt), SettingsKey(fmt)} \subseteq DOMAIN config
    /\ "superTracks" \in DOMAIN config
          => /\ "superTrackSettings" \in DOMAIN config
             /\ py.exec_persists
             /\ DisjointGroups(config["superTracks"])

\* C17 (with every optional key): such a configuration is assembled without
\* an exception and its tracks are placed in the same way.
C17_WithEveryKey ==
    (Validated /\ keys_ret = [returned |-> <<>>] /\ EveryKey)
        => /\ ~FailedBeforeStaging
           /\ Instantiated => TracksPlaced

\* C17 (with every optional key, reached): a hub with a track under a
\* super-track and a track in the track db is ready for staging.
C17_PlacedReached ==
    /\ Instantiated
    /\ TracksPlaced
    /\ \E k \in 1..Len(tracks) : tracks[k].parent = "trackDb"
    /\ \E k \in 1..Len(tracks) : tracks[k].parent # "trackDb"

\* ------------------------------------------------ claims on check_call_step

\* check_call_step was called and has returned or raised
StepCalled == callee = "check_call_step"

\* C21: check_call_step runs the command iff current_step >= init_step and
\* call is true; when it does not run it, it returns 0 and raises nothing;
\* when the command exits with c # 0 it raises CalledProcessError(c, cmd) if
\* raise_on_error is true and returns c otherwise; when the command exits
\* with 0 it returns 0.
C21_CheckCallStep ==
    StepCalled
        => /\ result.executed = (given.current_step >= given.init_step /\ given.call)
           /\ ~result.executed => (result.exc = "none" /\ result.ret_code = 0)
           /\ (result.executed /\ given.code # 0 /\ given.raise_on_error)
                 => /\ result.exc = "CalledProcessError"
                    /\ result.exc_args = <<given.code, given.cmd>>
           /\ (result.executed /\ given.code # 0 /\ ~given.raise_on_error)
                 => (result.exc = "none" /\ result.ret_code = given.code)
           /\ (result.executed /\ given.code = 0)
                 => (result.exc = "none" /\ result.ret_code = 0)

\* C21 (witness): a call below the initial step, with call true and a
\* command that would fail, returned 0 without running it.
C21_Witness ==
    /\ StepCalled
    /\ given.current_step < given.init_step
    /\ given.call
    /\ given.raise_on_error
    /\ given.code # 0
    /\ ~result.executed
    /\ result.ret_code = 0
    /\ result.exc = "none"

\* -------------------------------------------- claims on check_programs_exist

\* check_programs_exist was called and has returned or raised
ProgramsCalled == callee = "check_programs_exist"

\* the given programs the search path does not resolve, in input order
NotResolved == SelectSeq(given.programs, LAMBDA x : x \notin given.found)

\* C22: check_programs_exist returns the list of the given programs that
\* are not resolved, in input order, one element for each: the empty list
\* when all are found, the list of the missing names when some are missing
\* and raise_on_error is false; with raise_on_error true and a program
\* missing it raises EnvironmentError.
C22_ReturnsMissingList ==
    ProgramsCalled
        => /\ NotResolved = <<>>
                 => (result.exc = "none" /\ result.ret = PyList(<<>>))
           /\ (NotResolved # <<>> /\ given.raise_on_error) => result.exc = "OSError"
           /\ (NotResolved # <<>> /\ ~given.raise_on_error)
                 => (result.exc = "none" /\ result.ret = PyList(NotResolved))

\* C22 (what is returned instead): with raise_on_error false and a program
\* missing, the value returned is one str, the missing names joined by
\* blanks; the other two cases are as above.
C22_ReturnsJoinedText ==
    ProgramsCalled
        => /\ NotResolved = <<>>
                 => (result.exc = "none" /\ result.ret = PyList(<<>>))
           /\ (NotResolved # <<>> /\ given.raise_on_error) => result.exc = "OSError"
           /\ (NotResolved # <<>> /\ ~given.raise_on_error)
                 => /\ result.exc = "none"
                    /\ result.ret.t = "str"
                    /\ result.ret.v = JoinWith(TSpace, NotResolved)

\* ------------------------------------------------ claims on the file checkers

\* one pass of the attempt loop in which the command was run
Invoked == pc = "cine_attempt" /\ Len(calls') = Len(calls) + 1

\* no checker was consulted and no file renamed in the step
NothingChecked ==
    /\ checked' = checked
    /\ renamed' = renamed
    /\ \A f \in fs' \ fs : \A g \in Range(p.file_checkers.v) : f # InvalidName(g)

\* C23: a pass of the attempt loop whose invocation exits non-zero with
\* raise_on_error false consults no checker and renames no file to '.invalid'.
C23_CheckersOnlyAfterSuccess ==
    [][(Invoked /\ ~p.raise_on_error /\ ret_code' # 0) => NothingChecked]_vars

\* C23 (with raise_on_error true): a pass whose invocation raised
\* CalledProcessError consults no checker and renames no file.
C23_NoCheckAfterRaise ==
    [][(Invoked /\ exc' = "CalledProcessError") => NothingChecked]_vars

\* ------------------------------------------------- claims on the track type

\* the trackType of the global settings of the format
GlobalTrackType(c, fmt) == Get(c[GlobalKey(fmt)], "trackType").s

\* the keys of the parameters of a Track object
ParamKeys(t) == {t.params[k][1] : k \in 1..Len(t.params)}

\* every Track object has the trackType of the global settings of its format
TypeFromGlobal ==
    \A k \in 1..Len(tracks) :
        tracks[k].track.tracktype = GlobalTrackType(config, tracks[k].track.fmt)

\* C24: every track has the trackType of the global settings of its format
\* as its type, so that all tracks of a format have the same, and no track
\* has trackType among its parameters.
C24_TrackType ==
    prog = "hub"
        => /\ TypeFromGlobal
           /\ \A k \in 1..Len(tracks) : "trackType" \notin ParamKeys(tracks[k].track)

\* no per-file entry of the configuration sets trackType
NoTypePerFile(c) ==
    \A fmt \in {"Bed", "Wig"} :
        SettingsKey(fmt) \in DOMAIN c
            => \A k \in 1..Len(c[SettingsKey(fmt)]) :
                  ~Has(c[SettingsKey(fmt)][k][2], "trackType")

\* C24 (the type alone, and the parameters when no per-file entry sets
\* trackType): every track has the trackType of the global settings of its
\* format, and trackType is a parameter only of a track whose per-file
\* entry sets it.
C24_TypeFromGlobal ==
    prog = "hub"
        => /\ TypeFromGlobal
           /\ \A k \in 1..Len(tracks) :
                "trackType" \in ParamKeys(tracks[k].track)
                   => /\ SettingsKey(tracks[k].track.fmt) \in DOMAIN config
                      /\ Has(config[SettingsKey(tracks[k].track.fmt)], tracks[k].track.name)
                      /\ Has(Get(config[SettingsKey(tracks[k].track.fmt)],
                                 tracks[k].track.name), "trackType")

\* C24 (reached): a hub without a per-file trackType is ready for staging,
\* with two tracks of one format, one under a super-track and one not.
C24_SameTypeReached ==
    /\ Instantiated
    /\ NoTypePerFile(config)
    /\ \E j, k \in 1..Len(tracks) :
         /\ tracks[j].track.fmt = tracks[k].track.fmt
         /\ tracks[j].parent # "trackDb"
         /\ tracks[k].parent = "trackDb"
         /\ tracks[j].track.tracktype = tracks[k].track.tracktype

\* -------------------------------------------- claims on the super-track labels

\* the label the configuration gives the super-track under the key, or its
\* own name
SuperLabel(c, superTrack, key) ==
    IF /\ "superTrackSettings" \in DOMAIN c
       /\ Has(c["superTrackSettings"], superTrack)
       /\ Has(Get(c["superTrackSettings"], superTrack), key)
    THEN Get(Get(c["superTrackSettings"], superTrack), key)
    ELSE superTrack

\* every SuperTrack object has the labels of the configuration, or its name
SuperLabelled ==
    \A k \in 1..Len(supers) :
        /\ supers[k].short_label = SuperLabel(config, supers[k].name, "shortLabel")
        /\ supers[k].long_label = SuperLabel(config, supers[k].name, "longLabel")

\* C25: every super-track has the short and long labels superTrackSettings
\* gives it and its own name for a label not given; a configuration with
\* superTracks and no superTrackSettings key is accepted, every label being
\* the name.
C25_SuperTrackLabels ==
    prog = "hub"
        => /\ SuperLabelled
           /\ ~KeyErrorOn("superTrackSettings")

\* C25 (the labels alone): every SuperTrack object made has the labels
\* superTrackSettings gives it, and its name for a label not given.
C25_LabelsOfSuperTracksMade == prog = "hub" => SuperLabelled

\* ------------------------------------------------------ claims on _get_args

\* _get_args was called and has returned or raised
ArgsCalled == callee = "_get_args"

\* the option is of the form '--key value' or '--key': its first word is
\* two dashes and a key that neither starts nor ends with a dash
IsOption(opt) ==
    /\ Words(opt) # <<>>
    /\ LET w == Words(opt)[1]
       IN  /\ Len(w) > 2
           /\ w[1] = Dash /\ w[2] = Dash
           /\ w[3] # Dash /\ w[Len(w)] # Dash

\* the key of an option, as it is written
OptionKey(opt) == Words(opt)[1]

\* the index of the first option of the list with the key of option k
FirstWithKey(opts, k) ==
    CHOOSE j \in 1..Len(opts) :
        /\ OptionKey(opts[j]) = OptionKey(opts[k])
        /\ \A i \in 1..(j - 1) : OptionKey(opts[i]) # OptionKey(opts[k])

\* the orders in which each option of the list is taken once
Orders(n) == {f \in [1..n -> 1..n] : \A i, j \in 1..n : f[i] = f[j] => i = j}

\* the words of the options taken in the order
RECURSIVE WordsInOrder(_, _, _)
WordsInOrder(opts, order, from) ==
    IF from > Len(opts) THEN <<>>
    ELSE Words(opts[order[from]]) \o WordsInOrder(opts, order, from + 1)

\* options with the same key are adjacent and in input order, and keys are
\* in the order of their first occurrence
Grouping(opts, order) ==
    \A a, b \in 1..Len(opts) :
        a < b => IF OptionKey(opts[order[a]]) = OptionKey(opts[order[b]])
                 THEN /\ order[a] < order[b]
                      /\ \A m \in a..b : OptionKey(opts[order[m]]) = OptionKey(opts[order[a]])
                 ELSE FirstWithKey(opts, order[a]) < FirstWithKey(opts, order[b])

\* C26: for a list of '--key value' options, the fragment _get_args returns
\* is made of the words of every option, each option taken once, options
\* with the same key adjacent and in input order, keys in the order of their
\* first occurrence; for None it is the empty string; --ignoreDuplicates is
\* in the fragment only if it is in an option.
C26_GetArgs ==
    ArgsCalled
        => /\ given.args.none => (result.exc = "none" /\ result.ret = <<>>)
           /\ (~given.args.none /\ \A k \in 1..Len(given.args.v) : IsOption(given.args.v[k]))
                 => /\ result.exc = "none"
                    /\ \E order \in Orders(Len(given.args.v)) :
                         /\ Grouping(given.args.v, order)
                         /\ Words(result.ret) = WordsInOrder(given.args.v, order, 1)
                    /\ TIgnoreDuplicates \in Range(Words(result.ret))
                          => \E k \in 1..Len(given.args.v) :
                               TIgnoreDuplicates \in Range(Words(given.args.v[k]))

\* C26 (witness): two options with one key, given with an option of another
\* key between them, came back next to each other, first value first.
C26_Witness ==
    /\ ArgsCalled
    /\ ~given.args.none
    /\ Len(given.args.v) = 3
    /\ \A k \in 1..3 : IsOption(given.args.v[k])
    /\ OptionKey(given.args.v[1]) = OptionKey(given.args.v[3])
    /\ OptionKey(given.args.v[1]) # OptionKey(given.args.v[2])
    /\ given.args.v[1] # given.args.v[3]
    /\ result.exc = "none"
    /\ Words(result.ret)
          = Words(given.args.v[1]) \o Words(given.args.v[3]) \o Words(given.args.v[2])

\* ------------------------------------------------- claims on the source files

\* the converters that make a temporary file
TableConverters == {"bed2bigBed", "bedGraph2bigWig"}

\* the source files the file mapping names
SourceFiles == {fileMapping[k].path : k \in 1..Len(fileMapping)}

\* no source file was removed or written in this run, and every file
\* removed is the temporary file of an item
SourcesKept ==
    /\ SourceFiles \cap removed = {}
    /\ SourceFiles \cap written = {}
    /\ \A f \in removed : \E k \in 1..Len(fileMapping) : f = TmpOf(k)

\* C27: whatever --skip, --keep and --overwrite are, get_bed2bigBed and
\* get_bedGraph2bigWig remove and overwrite no source file of the file
\* mapping; the files they remove are temporary files of the output directory.
C27_SourcesKept == prog \in TableConverters => SourcesKept

\* C27 (without --skip): the same for the runs that prepare a temporary file.
C27_SourcesKeptWithoutSkip == (prog \in TableConverters /\ ~args.skip) => SourcesKept

\* C27 (without --skip, reached): a run without --skip and --keep ended
\* with its temporary files removed and every source file in place.
C27_TemporaryOnlyReached ==
    /\ prog = "bed2bigBed"
    /\ pc = "done"
    /\ ~args.skip
    /\ ~args.keep
    /\ removed = {TmpOf(k) : k \in 1..Len(fileMapping)}
    /\ Len(fileMapping) = NumEntries
    /\ SourceFiles \subseteq fs

\* --------------------------------------------- claims on the end of the run

\* the loop of get_bed2bigBed ended without an exception
BedRunEnded == prog = "bed2bigBed" /\ pc = "done"

\* every item of the file mapping has its final output
AllOutputsExist == \A k \in 1..Len(fileMapping) : FinalOutput(k) \in fs

\* C28: when the loop of get_bed2bigBed ends without an exception, the final
\* output {outputDir}/{name}.bb of every item exists (bedToBigBed writing
\* its output whenever it exits 0), also when the chrom.sizes file is missing.
C28_NormalEndHasOutputs == BedRunEnded => AllOutputsExist

\* C28 (with the chrom.sizes file): a run that finds the chrom.sizes file
\* and ends without an exception leaves every final output.
C28_WithChromSizes == (BedRunEnded /\ ChrSizes \in fs) => AllOutputsExist

\* C28 (with the chrom.sizes file, reached): such a run ended after
\* invoking bedToBigBed for every item.
C28_OutputsReached ==
    /\ BedRunEnded
    /\ ChrSizes \in fs
    /\ Len(fileMapping) = NumEntries
    /\ Len(calls) = NumEntries
    /\ AllOutputsExist

====
